---------------------------- MODULE Spec2Model ----------------------------
(***************************************************************************)
(* Credential vault and authenticated reverse proxy of n8n-dashboard.      *)
(*                                                                         *)
(*   api/credentials/index.ts  credential-management endpoint (save, view, *)
(*                             delete) and the browser settings store      *)
(*   unnamed/part_000          reverse proxy endpoint (resolve credentials,*)
(*                             forward, relay)                             *)
(*                                                                         *)
(* Text is a sequence of one-character strings, bytes are sequences of     *)
(* 0..255, so that encoding, splitting and parsing are computed and not    *)
(* assumed.                                                                *)
(***************************************************************************)
EXTENDS Integers, Sequences, FiniteSets, TLC

VARIABLES
    env,        \* process.env of the deployment, fixed for a behaviour
    table,      \* rows of user_credentials
    nextId,     \* next row id the store assigns (gen_random_uuid)
    clock,      \* the store's NOW()
    pc,         \* per request slot: position in its handler
    req,        \* per request slot: the inbound request
    loc,        \* per request slot: the handler's local variables
    res,        \* per request slot: the response under construction / sent
    out,        \* per request slot: the outbound fetch of the proxy
    log,        \* per request slot: collaborators contacted, in order
    pure        \* scratch state of the pure-function specifications

vars == <<env, table, nextId, clock, pc, req, loc, res, out, log, pure>>

-----------------------------------------------------------------------------
(* Generic helpers on sequences.                                           *)

\* Sum and concatenation by halving, so that long buffers stay shallow.
RECURSIVE SumSeq(_)
SumSeq(s) ==
    IF s = <<>> THEN 0
    ELSE IF Len(s) = 1 THEN s[1]
    ELSE LET h == Len(s) \div 2
         IN  SumSeq(SubSeq(s, 1, h)) + SumSeq(SubSeq(s, h + 1, Len(s)))

RECURSIVE Flatten(_)
Flatten(ss) ==
    IF ss = <<>> THEN <<>>
    ELSE IF Len(ss) = 1 THEN ss[1]
    ELSE LET h == Len(ss) \div 2
         IN  Flatten(SubSeq(ss, 1, h)) \o Flatten(SubSeq(ss, h + 1, Len(ss)))

Repeat(x, n) == [i \in 1..n |-> x]

StartsWith(s, p) == Len(s) >= Len(p) /\ SubSeq(s, 1, Len(p)) = p

Contains(s, p) ==
    \E i \in 1..(Len(s) - Len(p) + 1) : SubSeq(s, i, i + Len(p) - 1) = p

Min(a, b) == IF a < b THEN a ELSE b

\* The value of an unset JavaScript variable, property or header.
Undefined == [t |-> "undefined"]

-----------------------------------------------------------------------------
(* Buffer: base64 and UTF-8, as Node's Buffer computes them.               *)

B64Chars ==
    << "A","B","C","D","E","F","G","H","I","J","K","L","M","N","O","P",
       "Q","R","S","T","U","V","W","X","Y","Z","a","b","c","d","e","f",
       "g","h","i","j","k","l","m","n","o","p","q","r","s","t","u","v",
       "w","x","y","z","0","1","2","3","4","5","6","7","8","9","+","/" >>

B64Pad == "="

\* Buffer.prototype.toString('base64'): 3 bytes -> 4 characters, '=' padded.
Base64Encode(bytes) ==
    LET n == Len(bytes)
        groups == (n + 2) \div 3
        byteAt(i) == IF i <= n THEN bytes[i] ELSE 0
        sym(j) ==
            LET g == (j - 1) \div 4
                p == (j - 1) % 4
                b1 == byteAt(3 * g + 1)
                b2 == byteAt(3 * g + 2)
                b3 == byteAt(3 * g + 3)
                have == n - 3 * g      \* bytes present in this group
            IN  CASE p = 0 -> B64Chars[(b1 \div 4) + 1]
                  [] p = 1 -> B64Chars[((b1 % 4) * 16 + (b2 \div 16)) + 1]
                  [] p = 2 -> IF have >= 2
                              THEN B64Chars[((b2 % 16) * 4 + (b3 \div 64)) + 1]
                              ELSE B64Pad
                  [] p = 3 -> IF have >= 3
                              THEN B64Chars[(b3 % 64) + 1]
                              ELSE B64Pad
    IN  [j \in 1..(4 * groups) |-> sym(j)]

B64Index(c) == CHOOSE k \in 0..63 : B64Chars[k + 1] = c

IsB64Char(c) == \E k \in 1..64 : B64Chars[k] = c

\* Buffer.from(text, 'base64'): characters outside the alphabet are skipped,
\* decoding stops at the first '=' and a trailing partial group yields
\* only its complete bytes.
Base64Decode(text) ==
    LET padAt == IF \E i \in 1..Len(text) : text[i] = B64Pad
                 THEN CHOOSE i \in 1..Len(text) :
                        /\ text[i] = B64Pad
                        /\ \A j \in 1..(i - 1) : text[j] # B64Pad
                 ELSE Len(text) + 1
        data == SelectSeq(SubSeq(text, 1, padAt - 1), IsB64Char)
        m == Len(data)
        n == (m * 6) \div 8
        v(j) == B64Index(data[j])
        byte(i) ==
            LET g == (i - 1) \div 3
                p == (i - 1) % 3
                s1 == v(4 * g + 1)
                s2 == v(4 * g + 2)
                s3 == IF 4 * g + 3 <= m THEN v(4 * g + 3) ELSE 0
                s4 == IF 4 * g + 4 <= m THEN v(4 * g + 4) ELSE 0
            IN  CASE p = 0 -> s1 * 4 + (s2 \div 16)
                  [] p = 1 -> (s2 % 16) * 16 + (s3 \div 4)
                  [] p = 2 -> (s3 % 4) * 64 + s4
    IN  [i \in 1..n |-> byte(i)]

\* The characters secrets are written in; a name of the form U+XXXX stands
\* for the one character with that code point.
CodePoints ==
    [c \in {"s", "k", "9", "U+00E9", "U+20AC"} |->
        CASE c = "s" -> 115
          [] c = "k" -> 107
          [] c = "9" -> 57
          [] c = "U+00E9" -> 233
          [] c = "U+20AC" -> 8364]

ReplacementChar == "U+FFFD"

\* UTF-8 bytes of one code point (1, 2 or 3 bytes).
Utf8OfCodePoint(cp) ==
    IF cp < 128 THEN <<cp>>
    ELSE IF cp < 2048 THEN <<192 + (cp \div 64), 128 + (cp % 64)>>
    ELSE <<224 + (cp \div 4096), 128 + ((cp \div 64) % 64), 128 + (cp % 64)>>

\* Buffer.from(text, 'utf8') / cipher.update(text, 'utf8').
Utf8Encode(text) ==
    Flatten([i \in 1..Len(text) |-> Utf8OfCodePoint(CodePoints[text[i]])])

CharOfCodePoint(cp) ==
    IF \E c \in DOMAIN CodePoints : CodePoints[c] = cp
    THEN CHOOSE c \in DOMAIN CodePoints : CodePoints[c] = cp
    ELSE ReplacementChar

\* Buffer.prototype.toString('utf8'): a well-formed 1-, 2- or 3-byte sequence
\* decodes to its character, any other byte to U+FFFD.
Utf8Decode(bytes) ==
    LET n == Len(bytes)
        cont(i) == i >= 1 /\ i <= n /\ bytes[i] >= 128 /\ bytes[i] < 192
        lead2(i) == i >= 1 /\ i <= n /\ bytes[i] >= 194 /\ bytes[i] < 224
                    /\ cont(i + 1)
        lead3(i) == i >= 1 /\ i <= n /\ bytes[i] >= 224 /\ bytes[i] < 240
                    /\ cont(i + 1) /\ cont(i + 2)
        consumed(i) == cont(i) /\ (lead2(i - 1) \/ lead3(i - 1) \/ lead3(i - 2))
        at(i) ==
            IF consumed(i) THEN <<>>
            ELSE IF bytes[i] < 128 THEN <<CharOfCodePoint(bytes[i])>>
            ELSE IF lead2(i)
            THEN <<CharOfCodePoint((bytes[i] - 192) * 64 + (bytes[i + 1] - 128))>>
            ELSE IF lead3(i)
            THEN <<CharOfCodePoint((bytes[i] - 224) * 4096
                                   + (bytes[i + 1] - 128) * 64
                                   + (bytes[i + 2] - 128))>>
            ELSE <<ReplacementChar>>
    IN  Flatten([i \in 1..n |-> at(i)])

-----------------------------------------------------------------------------
(* AES-256-GCM of Node's crypto module, reduced to what the handlers rely  *)
(* on: a keystream cipher keyed by (key, iv) and a 16-byte tag over key,   *)
(* iv and ciphertext that decipher.final() verifies.                       *)

GcmTagLength == 16

GcmKeystream(key, iv, i) ==
    (key[((i - 1) % Len(key)) + 1] + iv[((i - 1) % Len(iv)) + 1] + i) % 256

GcmTag(key, iv, ciphertext) ==
    LET weighted == SumSeq([i \in 1..Len(ciphertext) |-> i * ciphertext[i]])
        mix == 3 * SumSeq(key) + 5 * SumSeq(iv) + 7 * weighted + Len(ciphertext)
    IN  [j \in 1..GcmTagLength |-> (mix + 11 * j) % 256]

\* createCipheriv(ALGORITHM, key, iv); update; final; getAuthTag
GcmSeal(key, iv, plaintext) ==
    LET ciphertext ==
            [i \in 1..Len(plaintext) |->
                (plaintext[i] + GcmKeystream(key, iv, i)) % 256]
    IN  [ciphertext |-> ciphertext, authTag |-> GcmTag(key, iv, ciphertext)]

\* createDecipheriv(ALGORITHM, key, iv); setAuthTag; update; final.
\* An empty iv, a tag of another length or a tag that does not verify throws.
GcmOpen(key, iv, authTag, ciphertext) ==
    IF Len(iv) = 0 \/ Len(authTag) # GcmTagLength
       \/ authTag # GcmTag(key, iv, ciphertext)
    THEN [ok |-> FALSE, plaintext |-> <<>>]
    ELSE [ok |-> TRUE,
          plaintext |-> [i \in 1..Len(ciphertext) |->
                            (ciphertext[i] + 256 - GcmKeystream(key, iv, i)) % 256]]

\* buf.subarray(start, end): offsets are clamped to the buffer.
Subarray(buf, start, end) ==
    SubSeq(buf, Min(start, Len(buf)) + 1, Min(end, Len(buf)))

\* The outcome of a vault operation: its value or the Error it throws, and
\* whether the cipher was reached.
Returned(value) == [ok |-> TRUE, value |-> value, error |-> "", cipher |-> TRUE]
Thrown(message, reached) ==
    [ok |-> FALSE, value |-> <<>>, error |-> message, cipher |-> reached]

KEY_BYTES == 32

-----------------------------------------------------------------------------
(* api/credentials/index.ts: encrypt                                       *)

Cred_IV_LENGTH == 16

\* EncryptWith without the check of the decoded key's length
EncryptWith_NoLengthCheck(encryptionKey, iv, plaintext) ==
    IF encryptionKey = <<>>
    THEN Thrown("Encryption not configured", FALSE)
    ELSE LET keyBuffer == Base64Decode(encryptionKey)
             sealed == GcmSeal(keyBuffer, iv, Utf8Encode(plaintext))
             combined == iv \o sealed.authTag \o sealed.ciphertext
         IN  Returned(Base64Encode(combined))

EncryptWith(encryptionKey, iv, plaintext) ==
    IF encryptionKey = <<>>
    THEN Thrown("Encryption not configured", FALSE)
    ELSE LET keyBuffer == Base64Decode(encryptionKey)
         IN  IF Len(keyBuffer) # KEY_BYTES
             THEN Thrown("Invalid encryption configuration", FALSE)
             ELSE LET sealed == GcmSeal(keyBuffer, iv, Utf8Encode(plaintext))
                      combined == iv \o sealed.authTag \o sealed.ciphertext
                  IN  Returned(Base64Encode(combined))

\* encrypt(plaintext), with the bytes randomBytes(IV_LENGTH) returned.
Encrypt(plaintext, iv) == EncryptWith(env.ENCRYPTION_KEY, iv, plaintext)

-----------------------------------------------------------------------------
(* unnamed/part_000: decrypt                                               *)

Proxy_IV_LENGTH == 16
Proxy_AUTH_TAG_LENGTH == 16

\* DecryptSplit with the 12-byte IV that is usual for GCM
DecryptSplit_Iv12(combined) ==
    [iv |-> Subarray(combined, 0, 12),
     authTag |-> Subarray(combined, 12, 12 + Proxy_AUTH_TAG_LENGTH),
     ciphertext |-> Subarray(combined, 12 + Proxy_AUTH_TAG_LENGTH, Len(combined))]

\* decrypt: the three subarray calls
DecryptSplit(combined) ==
    [iv |-> Subarray(combined, 0, Proxy_IV_LENGTH),
     authTag |-> Subarray(combined, Proxy_IV_LENGTH,
                          Proxy_IV_LENGTH + Proxy_AUTH_TAG_LENGTH),
     ciphertext |-> Subarray(combined, Proxy_IV_LENGTH + Proxy_AUTH_TAG_LENGTH,
                             Len(combined))]

DecryptWith(encryptionKey, encryptedData) ==
    IF encryptionKey = <<>>
    THEN Thrown("Encryption not configured", FALSE)
    ELSE LET keyBuffer == Base64Decode(encryptionKey)
         IN  IF Len(keyBuffer) # KEY_BYTES
             THEN Thrown("Invalid encryption configuration", FALSE)
             ELSE LET parts == DecryptSplit(Base64Decode(encryptedData))
                      opened == GcmOpen(keyBuffer, parts.iv, parts.authTag,
                                        parts.ciphertext)
                  IN  IF opened.ok
                      THEN Returned(Utf8Decode(opened.plaintext))
                      ELSE Thrown("Unsupported state or unable to authenticate data",
                                  TRUE)

Decrypt(encryptedData) == DecryptWith(env.ENCRYPTION_KEY, encryptedData)

-----------------------------------------------------------------------------
(* JavaScript strings and the String methods the handlers call.            *)

Str(text) == [t |-> "string", v |-> text]

IsString(x) == x.t = "string"

\* x || '' for a header that is a string or undefined
OrEmpty(x) == IF IsString(x) THEN x.v ELSE <<>>

IndexOf(text, c) ==
    IF \E i \in 1..Len(text) : text[i] = c
    THEN CHOOSE i \in 1..Len(text) :
            text[i] = c /\ \A j \in 1..(i - 1) : text[j] # c
    ELSE 0

\* String.prototype.split(',')
RECURSIVE Split(_, _)
Split(text, sep) ==
    LET i == IndexOf(text, sep)
    IN  IF i = 0 THEN <<text>>
        ELSE <<SubSeq(text, 1, i - 1)>> \o Split(SubSeq(text, i + 1, Len(text)), sep)

IsSpace(c) == c \in {" ", "\t", "\n"}

\* String.prototype.trim()
Trim(text) ==
    LET keep == {i \in 1..Len(text) : ~IsSpace(text[i])}
    IN  IF keep = {} THEN <<>>
        ELSE SubSeq(text,
                    CHOOSE i \in keep : \A j \in keep : i <= j,
                    CHOOSE i \in keep : \A j \in keep : i >= j)

\* Array.prototype.includes
Includes(list, x) == \E i \in 1..Len(list) : list[i] = x

Https == <<"h","t","t","p","s",":","/","/">>
Production == <<"p","r","o","d","u","c","t","i","o","n">>
Localhost5173 ==
    <<"h","t","t","p",":","/","/","l","o","c","a","l","h","o","s","t",":","5","1","7","3">>
Localhost3000 ==
    <<"h","t","t","p",":","/","/","l","o","c","a","l","h","o","s","t",":","3","0","0","0">>
Star == <<"*">>

-----------------------------------------------------------------------------
(* api/credentials/index.ts: getAllowedOrigins, setSecurityHeaders         *)

GetAllowedOrigins ==
    LET o1 == IF env.VERCEL_URL # <<>> THEN <<Https \o env.VERCEL_URL>> ELSE <<>>
        o2 == IF env.VERCEL_PROJECT_PRODUCTION_URL # <<>>
              THEN <<Https \o env.VERCEL_PROJECT_PRODUCTION_URL>> ELSE <<>>
        o3 == IF env.ALLOWED_ORIGINS # <<>>
              THEN LET parts == Split(env.ALLOWED_ORIGINS, ",")
                   IN  [i \in 1..Len(parts) |-> Trim(parts[i])]
              ELSE <<>>
        o4 == IF env.NODE_ENV # Production
              THEN <<Localhost5173, Localhost3000>> ELSE <<>>
    IN  o1 \o o2 \o o3 \o o4

FixedHeaders ==
    [h \in {"Access-Control-Allow-Methods", "Access-Control-Allow-Headers",
            "Access-Control-Max-Age", "X-Content-Type-Options",
            "X-Frame-Options", "Referrer-Policy"} |->
        CASE h = "Access-Control-Allow-Methods" ->
                Str(<<"GET, POST, PUT, DELETE, OPTIONS">>)
          [] h = "Access-Control-Allow-Headers" ->
                Str(<<"Content-Type, Authorization">>)
          [] h = "Access-Control-Max-Age" -> Str(<<"86400">>)
          [] h = "X-Content-Type-Options" -> Str(<<"nosniff">>)
          [] h = "X-Frame-Options" -> Str(<<"DENY">>)
          [] h = "Referrer-Policy" -> Str(<<"strict-origin-when-cross-origin">>)]

\* f extended (or overridden) by the pairs of g
Merge(f, g) ==
    [k \in DOMAIN f \cup DOMAIN g |-> IF k \in DOMAIN g THEN g[k] ELSE f[k]]

\* The headers setSecurityHeaders(res, origin) sets on a fresh response.
SetSecurityHeaders(origin) ==
    LET allowedOrigins == GetAllowedOrigins
        requestOrigin == OrEmpty(origin)
        acao == IF Len(allowedOrigins) = 0 \/ Includes(allowedOrigins, requestOrigin)
                THEN ("Access-Control-Allow-Origin" :>
                        Str(IF requestOrigin # <<>> THEN requestOrigin ELSE Star))
                ELSE <<>>
    IN  Merge(acao, FixedHeaders)

-----------------------------------------------------------------------------
(* unnamed/part_000: getAllowedOrigins, setSecurityHeaders                 *)

Proxy_GetAllowedOrigins ==
    LET o1 == IF env.VERCEL_URL # <<>> THEN <<Https \o env.VERCEL_URL>> ELSE <<>>
        o2 == IF env.VERCEL_PROJECT_PRODUCTION_URL # <<>>
              THEN <<Https \o env.VERCEL_PROJECT_PRODUCTION_URL>> ELSE <<>>
        o3 == IF env.ALLOWED_ORIGINS # <<>>
              THEN LET parts == Split(env.ALLOWED_ORIGINS, ",")
                   IN  [i \in 1..Len(parts) |-> Trim(parts[i])]
              ELSE <<>>
        o4 == IF env.NODE_ENV # Production
              THEN <<Localhost5173, Localhost3000>> ELSE <<>>
    IN  o1 \o o2 \o o3 \o o4

\* Proxy_SetSecurityHeaders setting the CORS headers only
Proxy_SetSecurityHeaders_CorsOnly(origin) ==
    LET allowedOrigins == Proxy_GetAllowedOrigins
        requestOrigin == OrEmpty(origin)
        acao == IF Len(allowedOrigins) = 0 \/ Includes(allowedOrigins, requestOrigin)
                THEN ("Access-Control-Allow-Origin" :>
                        Str(IF requestOrigin # <<>> THEN requestOrigin ELSE Star))
                ELSE <<>>
    IN  Merge(acao, [h \in {"Access-Control-Allow-Methods",
                            "Access-Control-Allow-Headers",
                            "Access-Control-Max-Age"} |-> FixedHeaders[h]])

Proxy_SetSecurityHeaders(origin) ==
    LET allowedOrigins == Proxy_GetAllowedOrigins
        requestOrigin == OrEmpty(origin)
        acao == IF Len(allowedOrigins) = 0 \/ Includes(allowedOrigins, requestOrigin)
                THEN ("Access-Control-Allow-Origin" :>
                        Str(IF requestOrigin # <<>> THEN requestOrigin ELSE Star))
                ELSE <<>>
    IN  Merge(acao, FixedHeaders)

-----------------------------------------------------------------------------
(* JavaScript values: truthiness, the WHATWG URL parser as far as `new     *)
(* URL(x).protocol` needs it, and JSON text.                               *)

Null == [t |-> "null"]
Num(n) == [t |-> "number", v |-> n]
Bool(b) == [t |-> "boolean", v |-> b]
\* An object literal, as its members in order.
Obj(members) == [t |-> "object", v |-> members]
Member(k, x) == [k |-> k, x |-> x]

\* !x
Falsy(x) ==
    \/ x.t \in {"undefined", "null"}
    \/ x.t = "string" /\ x.v = <<>>
    \/ x.t = "number" /\ x.v = 0
    \/ x.t = "boolean" /\ ~x.v

Digits == <<"0","1","2","3","4","5","6","7","8","9">>
UpperCase ==
    <<"A","B","C","D","E","F","G","H","I","J","K","L","M",
      "N","O","P","Q","R","S","T","U","V","W","X","Y","Z">>
LowerCase ==
    <<"a","b","c","d","e","f","g","h","i","j","k","l","m",
      "n","o","p","q","r","s","t","u","v","w","x","y","z">>

IsDigit(c) == Includes(Digits, c)
IsAlpha(c) == Includes(UpperCase, c) \/ Includes(LowerCase, c)
ToLowerChar(c) ==
    IF Includes(UpperCase, c)
    THEN LowerCase[CHOOSE i \in 1..26 : UpperCase[i] = c]
    ELSE c
ToLower(text) == [i \in 1..Len(text) |-> ToLowerChar(text[i])]

\* String(x) for the values a request body can hold
ToText(x) ==
    CASE x.t = "string" -> x.v
      [] x.t = "number" -> <<Digits[x.v + 1]>>
      [] x.t = "boolean" -> IF x.v THEN <<"t","r","u","e">> ELSE <<"f","a","l","s","e">>
      [] x.t = "null" -> <<"n","u","l","l">>
      [] OTHER -> <<"u","n","d","e","f","i","n","e","d">>

SpecialSchemes ==
    { <<"h","t","t","p">>, <<"h","t","t","p","s">>, <<"f","t","p">>,
      <<"w","s">>, <<"w","s","s">> }

\* The first index of text at or after `from` holding one of `stops`,
\* or Len(text) + 1.
FirstOf(text, from, stops) ==
    LET hits == {i \in from..Len(text) : text[i] \in stops}
    IN  IF hits = {} THEN Len(text) + 1
        ELSE CHOOSE i \in hits : \A j \in hits : i <= j

\* new URL(input) without a base: the scheme must be present and
\* well-formed; a special scheme needs a non-empty host and a numeric port.
ParseUrl(input) ==
    LET text == Trim(input)
        colon == IndexOf(text, ":")
        scheme == SubSeq(text, 1, colon - 1)
        schemeOk ==
            /\ colon > 1
            /\ IsAlpha(scheme[1])
            /\ \A i \in 1..Len(scheme) :
                  IsAlpha(scheme[i]) \/ IsDigit(scheme[i])
                  \/ scheme[i] \in {"+", "-", "."}
        lower == ToLower(scheme)
        afterColon == colon + 1
        authStart == FirstOf(text, afterColon,
                             {text[i] : i \in 1..Len(text)} \ {"/", "\\"})
        authEnd == FirstOf(text, authStart, {"/", "\\", "?", "#"})
        authority == SubSeq(text, authStart, authEnd - 1)
        ats == {i \in 1..Len(authority) : authority[i] = "@"}
        hostport == IF ats = {} THEN authority
                    ELSE SubSeq(authority,
                                (CHOOSE i \in ats : \A j \in ats : i >= j) + 1,
                                Len(authority))
        pcolon == IndexOf(hostport, ":")
        host == IF pcolon = 0 THEN hostport ELSE SubSeq(hostport, 1, pcolon - 1)
        port == IF pcolon = 0 THEN <<>>
                ELSE SubSeq(hostport, pcolon + 1, Len(hostport))
        hostOk == /\ host # <<>>
                  /\ \A i \in 1..Len(host) :
                        host[i] \notin {" ", "<", ">", "^", "|", "%", "[", "]"}
        portOk == Len(port) <= 5 /\ \A i \in 1..Len(port) : IsDigit(port[i])
    IN  IF ~schemeOk THEN [ok |-> FALSE, protocol |-> <<>>]
        ELSE IF lower \in SpecialSchemes /\ ~(hostOk /\ portOk)
        THEN [ok |-> FALSE, protocol |-> <<>>]
        ELSE [ok |-> TRUE, protocol |-> lower \o <<":">>]

\* The decimal digits of a natural number, and the number they spell.
RECURSIVE Decimal(_)
Decimal(n) ==
    IF n < 10 THEN <<Digits[n + 1]>>
    ELSE Decimal(n \div 10) \o <<Digits[(n % 10) + 1]>>

RECURSIVE DecimalValue(_)
DecimalValue(text) ==
    LET n == Len(text)
        last == (CHOOSE i \in 1..10 : Digits[i] = text[n]) - 1
    IN  IF n = 1 THEN last
        ELSE 10 * DecimalValue(SubSeq(text, 1, n - 1)) + last

\* JSON.stringify(x); undefined stays undefined (no text at all).
RECURSIVE JsonText(_)
JsonText(x) ==
    CASE x.t = "null" -> <<"n","u","l","l">>
      [] x.t = "number" -> Decimal(x.v)
      [] x.t = "boolean" -> ToText(x)
      [] x.t = "string" -> <<"\"">> \o x.v \o <<"\"">>
      [] x.t = "object" ->
            <<"{">>
            \o Flatten([i \in 1..Len(x.v) |->
                    (IF i > 1 THEN <<",">> ELSE <<>>)
                    \o <<"\"">> \o x.v[i].k \o <<"\"">> \o <<":">>
                    \o JsonText(x.v[i].x)])
            \o <<"}">>

JsonStringify(x) == IF x.t = "undefined" THEN Undefined ELSE Str(JsonText(x))

\* The commas of an object's text that separate its members: those outside
\* every string and every nested object.
RECURSIVE TopCommas(_, _, _, _)
TopCommas(text, i, quoted, depth) ==
    IF i > Len(text) THEN {}
    ELSE LET c == text[i]
         IN  IF quoted THEN TopCommas(text, i + 1, c # "\"", depth)
             ELSE IF c = "\"" THEN TopCommas(text, i + 1, TRUE, depth)
             ELSE IF c = "{" THEN TopCommas(text, i + 1, FALSE, depth + 1)
             ELSE IF c = "}" THEN TopCommas(text, i + 1, FALSE, depth - 1)
             ELSE IF c = "," /\ depth = 1
             THEN {i} \cup TopCommas(text, i + 1, FALSE, depth)
             ELSE TopCommas(text, i + 1, FALSE, depth)

\* JSON.parse(text) for null, booleans, natural numbers, strings without
\* escapes and objects whose members hold such values under distinct keys;
\* anything else is a SyntaxError.
RECURSIVE JsonParse(_)
JsonParse(text) ==
    LET n == Len(text)
        fail == [ok |-> FALSE, value |-> Undefined]
        good(x) == [ok |-> TRUE, value |-> x]
    IN  IF n = 0 THEN fail
        ELSE IF text = <<"n","u","l","l">> THEN good(Null)
        ELSE IF text = <<"t","r","u","e">> THEN good(Bool(TRUE))
        ELSE IF text = <<"f","a","l","s","e">> THEN good(Bool(FALSE))
        ELSE IF (\A i \in 1..n : IsDigit(text[i])) /\ (n = 1 \/ text[1] # "0")
        THEN good(Num(DecimalValue(text)))
        ELSE IF n >= 2 /\ text[1] = "\"" /\ text[n] = "\""
                /\ \A i \in 2..(n - 1) : text[i] \notin {"\"", "\\"}
        THEN good(Str(SubSeq(text, 2, n - 1)))
        ELSE IF n = 2 /\ text = <<"{", "}">> THEN good(Obj(<<>>))
        ELSE IF n >= 6 /\ text[1] = "{" /\ text[n] = "}"
        THEN LET commas == TopCommas(text, 1, FALSE, 0)
                 count == Cardinality(commas) + 1
                 cut(k) == IF k = 0 THEN 1
                           ELSE IF k = count THEN n
                           ELSE CHOOSE i \in commas :
                                  Cardinality({j \in commas : j < i}) = k - 1
                 piece(k) == SubSeq(text, cut(k - 1) + 1, cut(k) - 1)
                 close(k) == FirstOf(piece(k), 2, {"\"", "\\"})
                 wellFormed(k) ==
                     /\ Len(piece(k)) >= 4
                     /\ piece(k)[1] = "\""
                     /\ close(k) < Len(piece(k)) - 1
                     /\ piece(k)[close(k)] = "\""
                     /\ piece(k)[close(k) + 1] = ":"
                 inner(k) == JsonParse(SubSeq(piece(k), close(k) + 2, Len(piece(k))))
             IN  IF \A k \in 1..count : wellFormed(k) /\ inner(k).ok
                 THEN good(Obj([k \in 1..count |->
                         Member(SubSeq(piece(k), 2, close(k) - 1), inner(k).value)]))
                 ELSE fail
        ELSE fail

-----------------------------------------------------------------------------
(* The collaborators: identity service, record store, upstream server.     *)

NSlots == 2
Slots == 1..NSlots

\* Requests that may arrive in one behaviour; the store's NOW() advances
\* with every arrival.
MaxClock == 2

Users == {"u1", "u2"}

\* The access token the identity service issued to a user, and one it
\* never issued (or that expired).
TokenOf(u) == <<"t", "-", u>>
ExpiredToken == <<"t", "-", "x">>

\* client.auth.getUser(token): the user, or an error (token rejected, or
\* the service unreachable) that the call either returns in `error` or
\* raises by rejecting its promise.
GetUser(token) ==
    {[user |-> u, error |-> FALSE, thrown |-> FALSE] :
        u \in {u \in Users : TokenOf(u) = token}}
    \cup {[user |-> "", error |-> TRUE, thrown |-> t] : t \in BOOLEAN}

NoRow == Null

Columns == {"id", "user_id", "n8n_url", "encrypted_api_key", "created_at", "updated_at"}

Project(row, cols) == [c \in cols |-> row[c]]

RowsOf(userId) == {row \in table : row.user_id = userId}

\* from('user_credentials').select(cols).eq('user_id', userId).single():
\* exactly one row, else error PGRST116; or the store fails.
SelectSingle(cols, userId) ==
    (IF Cardinality(RowsOf(userId)) = 1
     THEN {[data |-> Project(CHOOSE row \in RowsOf(userId) : TRUE, cols),
            error |-> ""]}
     ELSE {[data |-> NoRow, error |-> "PGRST116"]})
    \cup {[data |-> NoRow, error |-> "unavailable"]}

RowId(n) == <<"r", Digits[n + 1]>>

\* InsertRow on a table without UNIQUE(user_id)
InsertRow_NoUnique(values) ==
    [table |-> table \cup
                    {[id |-> RowId(nextId), user_id |-> values.user_id,
                      n8n_url |-> values.n8n_url,
                      encrypted_api_key |-> values.encrypted_api_key,
                      created_at |-> clock, updated_at |-> clock]},
     error |-> ""]

\* insert(values): id, created_at and updated_at take their column defaults;
\* UNIQUE(user_id) rejects a second row for the user.
InsertRow(values) ==
    IF RowsOf(values.user_id) # {}
    THEN [table |-> table, error |-> "23505"]
    ELSE [table |-> table \cup
                    {[id |-> RowId(nextId), user_id |-> values.user_id,
                      n8n_url |-> values.n8n_url,
                      encrypted_api_key |-> values.encrypted_api_key,
                      created_at |-> clock, updated_at |-> clock]},
          error |-> ""]

\* UpdateRows without the filter on user_id
UpdateRows_AllUsers(values, userId) ==
    [table |-> {[row EXCEPT !.n8n_url = values.n8n_url,
                            !.encrypted_api_key = values.encrypted_api_key] :
                   row \in table},
     error |-> ""]

\* UpdateRows that also resets created_at
UpdateRows_SetsCreatedAt(values, userId) ==
    [table |-> {IF row.user_id = userId
                THEN [row EXCEPT !.n8n_url = values.n8n_url,
                                 !.encrypted_api_key = values.encrypted_api_key,
                                 !.created_at = clock]
                ELSE row : row \in table},
     error |-> ""]

\* update(values).eq('user_id', userId): the named columns of every
\* matching row; the table has no trigger on updated_at.
UpdateRows(values, userId) ==
    [table |-> {IF row.user_id = userId
                THEN [row EXCEPT !.n8n_url = values.n8n_url,
                                 !.encrypted_api_key = values.encrypted_api_key]
                ELSE row : row \in table},
     error |-> ""]

\* delete().eq('user_id', userId)
DeleteRows(userId) ==
    [table |-> {row \in table : row.user_id # userId}, error |-> ""]

StoreUnavailable == [table |-> table, error |-> "unavailable"]

\* What the upstream n8n server can answer to a fetch: a response with a
\* status and a body text, or no response at all (fetch rejects).
UpstreamStatuses == {200, 201, 404, 500}

UpstreamBodies ==
    { JsonText(Obj(<<Member(<<"m">>, Str(<<"e","r","r">>))>>)),
      <<"<", "h", "t", "m", "l", ">">>,
      <<>> }

\* The messages of the errors fetch rejects with: the connection failed, or
\* the upstream did not answer in time.
FetchErrors == {"fetch failed", "Headers Timeout Error"}

\* The message of the SyntaxError response.json() throws.
JsonSyntaxError == "Unexpected token in JSON"

\* fetch settles: a response with status and body text, or a rejection.
FetchOutcomes ==
    {[failed |-> FALSE, status |-> st, body |-> b, error |-> ""] :
        st \in UpstreamStatuses, b \in UpstreamBodies}
    \cup {[failed |-> TRUE, status |-> 0, body |-> <<>>, error |-> e] :
             e \in FetchErrors}

-----------------------------------------------------------------------------
(* Requests, responses and the per-request bookkeeping.                    *)

NoRequest == [endpoint |-> "none"]

NoResponse == [status |-> 0, body |-> Undefined, headers |-> <<>>, sent |-> FALSE]

NoFetch == [sent |-> FALSE]

\* A handler's locals; `before` is the table as the request found it.
NoLocals ==
    [user |-> "", via |-> "none", n8nUrl |-> <<>>, encryptedApiKey |-> <<>>,
     before |-> {}]

BearerPrefix == <<"B","e","a","r","e","r"," ">>

Bearer(token) == Str(BearerPrefix \o token)

\* res.status(code).json(body)
Json(headers, code, body) ==
    [status |-> code, body |-> body, headers |-> headers, sent |-> TRUE]

\* res.status(code).end()
End(headers, code) ==
    [status |-> code, body |-> Undefined, headers |-> headers, sent |-> TRUE]

Lit(text) == Str(<<text>>)

ErrorBody(error, message) ==
    Obj(<<Member(<<"error">>, Lit(error)), Member(<<"message">>, Lit(message))>>)

ErrorOnly(error) == Obj(<<Member(<<"error">>, Lit(error))>>)

SuccessBody == Obj(<<Member(<<"success">>, Bool(TRUE))>>)

\* Respond on slot r and end the handler.
Respond(r, response) ==
    /\ res' = [res EXCEPT ![r] = response]
    /\ pc' = [pc EXCEPT ![r] = "done"]

Note(r, events) == log' = [log EXCEPT ![r] = @ \o events]

-----------------------------------------------------------------------------
(* unnamed/part_000: the reverse proxy endpoint                            *)

Proxy_GetSupabaseClient ==
    env.SUPABASE_URL # <<>> /\ env.SUPABASE_SERVICE_ROLE_KEY # <<>>

NoCredentials == [found |-> FALSE, url |-> <<>>, apiKey |-> <<>>]

Credentials(url, apiKey) == [found |-> TRUE, url |-> url, apiKey |-> apiKey]

\* EnvCredentials with the fallback enabled by either variable alone
EnvCredentials_Either ==
    IF env.N8N_URL # <<>> \/ env.N8N_API_KEY # <<>>
    THEN Credentials(env.N8N_URL, env.N8N_API_KEY)
    ELSE NoCredentials

\* getCredentials, second half: the environment fallback
EnvCredentials ==
    IF env.N8N_URL # <<>> /\ env.N8N_API_KEY # <<>>
    THEN Credentials(env.N8N_URL, env.N8N_API_KEY)
    ELSE NoCredentials

\* Array.prototype.join
RECURSIVE Join(_, _)
Join(list, sep) ==
    IF list = <<>> THEN <<>>
    ELSE IF Len(list) = 1 THEN list[1]
    ELSE list[1] \o sep \o Join(Tail(list), sep)

\* Characters that application/x-www-form-urlencoded escapes, with the two
\* hex digits of their byte; every other element of a text stands for a run
\* of characters the encoding leaves alone (letters, digits, * - . _).
Escapes ==
    (" " :> <<"2", "0">>) @@ ("%" :> <<"2", "5">>) @@ ("&" :> <<"2", "6">>)
    @@ ("+" :> <<"2", "B">>) @@ ("/" :> <<"2", "F">>) @@ (":" :> <<"3", "A">>)
    @@ ("=" :> <<"3", "D">>) @@ ("?" :> <<"3", "F">>)

UpperHex(c) ==
    CASE c = "a" -> "A" [] c = "b" -> "B" [] c = "c" -> "C"
      [] c = "d" -> "D" [] c = "e" -> "E" [] c = "f" -> "F" [] OTHER -> c

\* Decoding of a name or value of a query: '+' is a space, %XX is the
\* character of that byte, a '%' not followed by a known byte stays.
RECURSIVE FormDecode(_)
FormDecode(text) ==
    IF text = <<>> THEN <<>>
    ELSE IF text[1] = "+" THEN <<" ">> \o FormDecode(Tail(text))
    ELSE IF /\ text[1] = "%" /\ Len(text) >= 3
            /\ \E c \in DOMAIN Escapes :
                  Escapes[c] = <<UpperHex(text[2]), UpperHex(text[3])>>
    THEN <<CHOOSE c \in DOMAIN Escapes :
              Escapes[c] = <<UpperHex(text[2]), UpperHex(text[3])>> >>
         \o FormDecode(SubSeq(text, 4, Len(text)))
    ELSE <<text[1]>> \o FormDecode(Tail(text))

\* Encoding of a name or value by URLSearchParams.prototype.toString
FormEncode(text) ==
    Flatten([i \in 1..Len(text) |->
                IF text[i] = " " THEN <<"+">>
                ELSE IF text[i] \in DOMAIN Escapes THEN <<"%">> \o Escapes[text[i]]
                ELSE <<text[i]>>])

\* The decoded name/value pairs of a query string, in order.
ParseQuery(search) ==
    LET parts == SelectSeq(Split(search, "&"), LAMBDA part : part # <<>>)
    IN  [i \in 1..Len(parts) |->
            LET e == IndexOf(parts[i], "=")
            IN  IF e = 0 THEN [name |-> FormDecode(parts[i]), value |-> <<>>]
                ELSE [name |-> FormDecode(SubSeq(parts[i], 1, e - 1)),
                      value |-> FormDecode(SubSeq(parts[i], e + 1, Len(parts[i])))]]

\* The query of a request URL: what follows the first '?'.
Search(url) ==
    LET q == IndexOf(url, "?")
    IN  IF q = 0 THEN <<>> ELSE SubSeq(url, q + 1, Len(url))

\* new URL(req.url, base).searchParams, and the pairs behind req.query
SearchParams(url) == ParseQuery(Search(url))

PathName == <<"path">>

\* req.query.path: undefined, the one value, or the array of values
QueryPath(url) ==
    LET named == SelectSeq(SearchParams(url), LAMBDA p : p.name = PathName)
    IN  IF Len(named) = 0 THEN Undefined
        ELSE IF Len(named) = 1 THEN Str(named[1].value)
        ELSE [t |-> "array", v |-> [i \in 1..Len(named) |-> named[i].value]]

\* QueryString handing the inbound query on as it came
QueryString_Raw(url) == Search(url)

\* url.searchParams.delete('path'); url.searchParams.toString()
QueryString(url) ==
    LET kept == SelectSeq(SearchParams(url), LAMBDA p : p.name # PathName)
    IN  Join([i \in 1..Len(kept) |->
                 FormEncode(kept[i].name) \o <<"=">> \o FormEncode(kept[i].value)],
             <<"&">>)

TargetUrl(credentials, request) ==
    LET pathParam == QueryPath(request.url)
        pathSegments == IF pathParam.t = "array" THEN pathParam.v
                        ELSE IF ~Falsy(pathParam) THEN <<pathParam.v>>
                        ELSE <<>>
        pathString == Join(pathSegments, <<"/">>)
        queryString == QueryString(request.url)
    IN  credentials.url \o <<"/">> \o pathString
        \o (IF queryString # <<>> THEN <<"?">> \o queryString ELSE <<>>)

\* FetchRequest with the inbound Authorization header passed along
FetchRequest_WithAuthorization(credentials, request) ==
    [sent |-> TRUE,
     url |-> TargetUrl(credentials, request),
     method |-> request.method,
     headers |-> ("Content-Type" :> Lit("application/json")
                  @@ "X-N8N-API-KEY" :> Str(credentials.apiKey)
                  @@ "Authorization" :> request.authorization),
     body |-> IF request.method # "GET" /\ request.method # "HEAD"
              THEN JsonStringify(request.body)
              ELSE Undefined,
     reply |-> [failed |-> FALSE, status |-> 0, body |-> <<>>, error |-> ""]]

\* FetchRequest with the body serialized for every method
FetchRequest_AlwaysBody(credentials, request) ==
    [sent |-> TRUE,
     url |-> TargetUrl(credentials, request),
     method |-> request.method,
     headers |-> ("Content-Type" :> Lit("application/json")
                  @@ "X-N8N-API-KEY" :> Str(credentials.apiKey)),
     body |-> JsonStringify(request.body),
     reply |-> [failed |-> FALSE, status |-> 0, body |-> <<>>, error |-> ""]]

\* The argument of fetch(targetUrl, {method, headers, body})
FetchRequest(credentials, request) ==
    [sent |-> TRUE,
     url |-> TargetUrl(credentials, request),
     method |-> request.method,
     headers |-> ("Content-Type" :> Lit("application/json")
                  @@ "X-N8N-API-KEY" :> Str(credentials.apiKey)),
     body |-> IF request.method # "GET" /\ request.method # "HEAD"
              THEN JsonStringify(request.body)
              ELSE Undefined,
     reply |-> [failed |-> FALSE, status |-> 0, body |-> <<>>, error |-> ""]]

ConfigurationRequired ==
    ErrorBody("Configuration required",
              "Please configure your n8n connection in settings.")

ConnectionFailed ==
    ErrorBody("Connection failed",
              "Unable to connect to n8n. Please check your configuration.")

\* ProxyForward issuing the upstream call before it looks at the credentials
ProxyForward_FetchFirst(r, headers, credentials, via, events) ==
    /\ loc' = [loc EXCEPT ![r].via = IF credentials.found THEN via ELSE "none"]
    /\ out' = [out EXCEPT ![r] = FetchRequest(credentials, req[r])]
    /\ Note(r, events \o <<"fetch">>)
    /\ IF ~credentials.found
       THEN Respond(r, Json(headers, 401, ConfigurationRequired))
       ELSE /\ res' = [res EXCEPT ![r].headers = headers]
            /\ pc' = [pc EXCEPT ![r] = "p_fetch"]

\* handler, from the return of getCredentials to the call of fetch
ProxyForward(r, headers, credentials, via, events) ==
    /\ loc' = [loc EXCEPT ![r].via = IF credentials.found THEN via ELSE "none"]
    /\ IF ~credentials.found
       THEN /\ Respond(r, Json(headers, 401, ConfigurationRequired))
            /\ Note(r, events)
            /\ UNCHANGED out
       ELSE /\ out' = [out EXCEPT ![r] = FetchRequest(credentials, req[r])]
            /\ res' = [res EXCEPT ![r].headers = headers]
            /\ pc' = [pc EXCEPT ![r] = "p_fetch"]
            /\ Note(r, events \o <<"fetch">>)

\* ProxyStart without the pre-flight branch
ProxyStart_NoPreflight(r) ==
    /\ pc[r] = "p_start"
    /\ LET headers == Proxy_SetSecurityHeaders(req[r].origin)
           authHeader == req[r].authorization
       IN  IF IsString(authHeader) /\ StartsWith(authHeader.v, BearerPrefix)
              /\ Proxy_GetSupabaseClient
           THEN /\ res' = [res EXCEPT ![r].headers = headers]
                /\ pc' = [pc EXCEPT ![r] = "p_verify"]
                /\ Note(r, <<"identity">>)
                /\ UNCHANGED <<loc, out>>
           ELSE ProxyForward(r, headers, EnvCredentials, "fallback", <<>>)
    /\ UNCHANGED <<env, table, nextId, clock, req, pure>>

\* handler up to the first await: security headers, pre-flight, and
\* getCredentials up to verifyAccessToken
ProxyStart(r) ==
    /\ pc[r] = "p_start"
    /\ LET headers == Proxy_SetSecurityHeaders(req[r].origin)
           authHeader == req[r].authorization
       IN  IF req[r].method = "OPTIONS"
           THEN /\ Respond(r, End(headers, 200))
                /\ UNCHANGED <<loc, out, log>>
           ELSE IF IsString(authHeader) /\ StartsWith(authHeader.v, BearerPrefix)
                   /\ Proxy_GetSupabaseClient
           THEN /\ res' = [res EXCEPT ![r].headers = headers]
                /\ pc' = [pc EXCEPT ![r] = "p_verify"]
                /\ Note(r, <<"identity">>)
                /\ UNCHANGED <<loc, out>>
           ELSE ProxyForward(r, headers, EnvCredentials, "fallback", <<>>)
    /\ UNCHANGED <<env, table, nextId, clock, req, pure>>

\* ProxyVerify without the try/catch of getCredentials
ProxyVerify_Rethrows(r) ==
    /\ pc[r] = "p_verify"
    /\ \E answer \in GetUser(SubSeq(req[r].authorization.v, 8,
                                    Len(req[r].authorization.v))) :
          IF answer.thrown
          THEN /\ pc' = [pc EXCEPT ![r] = "failed"]
               /\ UNCHANGED <<res, loc, out, log>>
          ELSE IF answer.error
          THEN ProxyForward(r, res[r].headers, EnvCredentials, "fallback", <<>>)
          ELSE /\ loc' = [loc EXCEPT ![r].user = answer.user]
               /\ pc' = [pc EXCEPT ![r] = "p_lookup"]
               /\ Note(r, <<"store.select">>)
               /\ UNCHANGED <<res, out>>
    /\ UNCHANGED <<env, table, nextId, clock, req, pure>>

\* verifyAccessToken settles: without a user, or in the catch of
\* getCredentials when it raised, the fallback is next; on a user,
\* getUserCredentials is called
ProxyVerify(r) ==
    /\ pc[r] = "p_verify"
    /\ \E answer \in GetUser(SubSeq(req[r].authorization.v, 8,
                                    Len(req[r].authorization.v))) :
          IF answer.error
          THEN ProxyForward(r, res[r].headers, EnvCredentials, "fallback",
                            IF answer.thrown THEN <<"caught">> ELSE <<>>)
          ELSE /\ loc' = [loc EXCEPT ![r].user = answer.user]
               /\ pc' = [pc EXCEPT ![r] = "p_lookup"]
               /\ Note(r, <<"store.select">>)
               /\ UNCHANGED <<res, out>>
    /\ UNCHANGED <<env, table, nextId, clock, req, pure>>

\* ResolveStored with the environment credentials tried first
ResolveStored_EnvFirst(data) ==
    LET apiKey == Decrypt(data.encrypted_api_key)
    IN  IF EnvCredentials.found THEN EnvCredentials
        ELSE IF apiKey.ok THEN Credentials(data.n8n_url, apiKey.value)
        ELSE NoCredentials

\* ResolveStored keeping the row's URL when the payload does not decrypt
ResolveStored_KeepUrl(data) ==
    LET apiKey == Decrypt(data.encrypted_api_key)
    IN  Credentials(data.n8n_url, IF apiKey.ok THEN apiKey.value ELSE env.N8N_API_KEY)

\* getCredentials for a row the store returned: decrypt, or fall back
ResolveStored(data) ==
    LET apiKey == Decrypt(data.encrypted_api_key)
    IN  IF apiKey.ok THEN Credentials(data.n8n_url, apiKey.value)
        ELSE NoCredentials

\* getUserCredentials answers; decrypt; fall back; forward or 401
ProxyLookup(r) ==
    /\ pc[r] = "p_lookup"
    /\ \E answer \in SelectSingle({"n8n_url", "encrypted_api_key"}, loc[r].user) :
          IF answer.error # "" \/ answer.data = NoRow
          THEN ProxyForward(r, res[r].headers, EnvCredentials, "fallback",
                            IF answer.error = "unavailable"
                            THEN <<"store.unavailable">> ELSE <<>>)
          ELSE LET stored == ResolveStored(answer.data)
                   reached == <<"decrypt">> \o
                              (IF Decrypt(answer.data.encrypted_api_key).cipher
                               THEN <<"decipher">> ELSE <<>>)
               IN  IF stored.found
                   THEN ProxyForward(r, res[r].headers, stored, "stored", reached)
                   ELSE ProxyForward(r, res[r].headers, EnvCredentials,
                                     "fallback", reached)
    /\ UNCHANGED <<env, table, nextId, clock, req, pure>>

\* Relay with the caught error's message put in the 502 body
Relay_EchoError(headers, reply) ==
    LET data == JsonParse(reply.body)
    IN  IF ~reply.failed /\ data.ok
        THEN Json(headers, reply.status, data.value)
        ELSE Json(headers, 502,
                  ErrorBody("Connection failed",
                            IF reply.failed THEN reply.error ELSE JsonSyntaxError))

\* Relay with an unparsable upstream body quoted in the 502 body
Relay_EchoBody(headers, reply) ==
    LET data == JsonParse(reply.body)
    IN  IF ~reply.failed /\ data.ok
        THEN Json(headers, reply.status, data.value)
        ELSE Json(headers, 502,
                  Obj(<<Member(<<"error">>, Lit("Connection failed")),
                        Member(<<"message">>, Str(reply.body))>>))

\* Relay with upstream server errors answered as 502
Relay_MaskServerErrors(headers, reply) ==
    LET data == JsonParse(reply.body)
    IN  IF ~reply.failed /\ data.ok /\ reply.status < 500
        THEN Json(headers, reply.status, data.value)
        ELSE Json(headers, 502, ConnectionFailed)

\* The try block after fetch: response.json(), res.status(...).json(data);
\* the catch answers 502.
Relay(headers, reply) ==
    LET data == JsonParse(reply.body)
    IN  IF ~reply.failed /\ data.ok
        THEN Json(headers, reply.status, data.value)
        ELSE Json(headers, 502, ConnectionFailed)

\* fetch settles: relay status and JSON body, or answer 502
ProxyRelay(r) ==
    /\ pc[r] = "p_fetch"
    /\ \E reply \in FetchOutcomes :
          /\ out' = [out EXCEPT ![r].reply = reply]
          /\ Respond(r, Relay(res[r].headers, reply))
    /\ UNCHANGED <<env, table, nextId, clock, req, loc, log, pure>>

-----------------------------------------------------------------------------
(* api/credentials/index.ts: the credential-management endpoint            *)

MAX_API_KEY_LENGTH == 500

IsValidUrl(url) ==
    LET parsed == ParseUrl(ToText(url))
    IN  parsed.ok /\ parsed.protocol \in {<<"h","t","t","p",":">>,
                                          <<"h","t","t","p","s",":">>}

\* IsValidApiKey without the upper bound on the length
IsValidApiKey_NoUpperBound(apiKey) ==
    IsString(apiKey) /\ Len(apiKey.v) >= 1

IsValidApiKey(apiKey) ==
    IsString(apiKey) /\ Len(apiKey.v) >= 1 /\ Len(apiKey.v) <= MAX_API_KEY_LENGTH

GetSupabaseClient ==
    env.SUPABASE_URL # <<>> /\ env.SUPABASE_SERVICE_ROLE_KEY # <<>>

\* IsConfigured testing the process key alone
IsConfigured_KeyOnly ==
    env.ENCRYPTION_KEY # <<>>

IsConfigured ==
    env.SUPABASE_URL # <<>> /\ env.SUPABASE_SERVICE_ROLE_KEY # <<>>
    /\ env.ENCRYPTION_KEY # <<>>

\* The bytes randomBytes(IV_LENGTH) can return.
RandomBytes(n) == {Repeat(7, n), Repeat(200, n)}

\* x[key] for a request body: a member of an object, else undefined
Prop(x, key) ==
    IF x.t = "object" /\ \E i \in 1..Len(x.v) : x.v[i].k = key
    THEN x.v[CHOOSE i \in 1..Len(x.v) : x.v[i].k = key].x
    ELSE Undefined

NotConfigured ==
    ErrorBody("Service unavailable", "Multi-user mode is not configured.")

InternalError ==
    ErrorBody("Internal error", "An unexpected error occurred. Please try again.")

\* handler up to the first await: security headers, pre-flight,
\* configuration check, Authorization header, call of verifyToken
CredStart(r) ==
    /\ pc[r] = "c_start"
    /\ LET headers == SetSecurityHeaders(req[r].origin)
           authHeader == req[r].authorization
       IN  IF req[r].method = "OPTIONS"
           THEN Respond(r, End(headers, 200)) /\ UNCHANGED log
           ELSE IF ~IsConfigured
           THEN Respond(r, Json(headers, 503, NotConfigured)) /\ UNCHANGED log
           ELSE IF ~(IsString(authHeader) /\ StartsWith(authHeader.v, BearerPrefix))
           THEN Respond(r, Json(headers, 401, ErrorOnly("Unauthorized")))
                /\ UNCHANGED log
           ELSE IF ~GetSupabaseClient
           THEN Respond(r, Json(headers, 401, ErrorOnly("Invalid or expired token")))
                /\ UNCHANGED log
           ELSE /\ res' = [res EXCEPT ![r].headers = headers]
                /\ pc' = [pc EXCEPT ![r] = "c_verify"]
                /\ Note(r, <<"identity">>)
    /\ UNCHANGED <<env, table, nextId, clock, req, loc, out, pure>>

\* POST/PUT up to the first store call: validation and encrypt
CredSave(r, user, iv) ==
    LET body == IF Falsy(req[r].body) THEN Obj(<<>>) ELSE req[r].body
        n8nUrl == Prop(body, <<"n8nUrl">>)
        apiKey == Prop(body, <<"apiKey">>)
        headers == res[r].headers
    IN  IF Falsy(n8nUrl) \/ Falsy(apiKey)
        THEN /\ Respond(r, Json(headers, 400,
                    ErrorBody("Invalid input",
                              "Both n8n URL and API key are required.")))
             /\ UNCHANGED <<loc, log>>
        ELSE IF ~IsValidUrl(n8nUrl)
        THEN /\ Respond(r, Json(headers, 400,
                    ErrorBody("Invalid URL",
                              "Please provide a valid n8n URL (http:// or https://).")))
             /\ UNCHANGED <<loc, log>>
        ELSE IF ~IsValidApiKey(apiKey)
        THEN /\ Respond(r, Json(headers, 400,
                    ErrorBody("Invalid API key", "Please provide a valid API key.")))
             /\ UNCHANGED <<loc, log>>
        ELSE LET encryptedApiKey == Encrypt(apiKey.v, iv)
                 reached == IF encryptedApiKey.cipher THEN <<"cipher">> ELSE <<>>
             IN  IF ~encryptedApiKey.ok
                 THEN /\ Respond(r, Json(headers, 500, InternalError))
                      /\ Note(r, <<"encrypt">> \o reached)
                      /\ UNCHANGED loc
                 ELSE /\ loc' = [loc EXCEPT ![r].user = user,
                                            ![r].n8nUrl = ToText(n8nUrl),
                                            ![r].encryptedApiKey = encryptedApiKey.value]
                      /\ pc' = [pc EXCEPT ![r] = "c_existing"]
                      /\ Note(r, <<"encrypt">> \o reached \o <<"store.select">>)
                      /\ UNCHANGED res

\* CredVerify without the test of the user that verifyToken returned
CredVerify_NoUserCheck(r) ==
    /\ pc[r] = "c_verify"
    /\ \E answer \in GetUser(SubSeq(req[r].authorization.v, 8,
                                    Len(req[r].authorization.v))) :
          IF answer.thrown
          THEN /\ pc' = [pc EXCEPT ![r] = "failed"]
               /\ UNCHANGED <<res, loc, log>>
          ELSE CASE req[r].method = "GET" ->
                    /\ loc' = [loc EXCEPT ![r].user = answer.user]
                    /\ pc' = [pc EXCEPT ![r] = "c_get"]
                    /\ Note(r, <<"store.select">>)
                    /\ UNCHANGED res
                 [] req[r].method \in {"POST", "PUT"} ->
                    \E iv \in RandomBytes(Cred_IV_LENGTH) :
                        CredSave(r, answer.user, iv)
                 [] req[r].method = "DELETE" ->
                    /\ loc' = [loc EXCEPT ![r].user = answer.user]
                    /\ pc' = [pc EXCEPT ![r] = "c_delete"]
                    /\ Note(r, <<"store.delete">>)
                    /\ UNCHANGED res
                 [] OTHER ->
                    /\ Respond(r, Json(res[r].headers, 405,
                                       ErrorOnly("Method not allowed")))
                    /\ UNCHANGED <<loc, log>>
    /\ UNCHANGED <<env, table, nextId, clock, req, out, pure>>

\* verifyToken settles; dispatch on the method up to the next await. The
\* await is outside every try: when getUser rejects, so does the handler
\* ("failed"), with no response written.
CredVerify(r) ==
    /\ pc[r] = "c_verify"
    /\ \E answer \in GetUser(SubSeq(req[r].authorization.v, 8,
                                    Len(req[r].authorization.v))) :
          IF answer.thrown
          THEN /\ pc' = [pc EXCEPT ![r] = "failed"]
               /\ UNCHANGED <<res, loc, log>>
          ELSE IF answer.error
          THEN /\ Respond(r, Json(res[r].headers, 401,
                                  ErrorOnly("Invalid or expired token")))
               /\ UNCHANGED <<loc, log>>
          ELSE CASE req[r].method = "GET" ->
                    /\ loc' = [loc EXCEPT ![r].user = answer.user]
                    /\ pc' = [pc EXCEPT ![r] = "c_get"]
                    /\ Note(r, <<"store.select">>)
                    /\ UNCHANGED res
                 [] req[r].method \in {"POST", "PUT"} ->
                    \E iv \in RandomBytes(Cred_IV_LENGTH) :
                        CredSave(r, answer.user, iv)
                 [] req[r].method = "DELETE" ->
                    /\ loc' = [loc EXCEPT ![r].user = answer.user]
                    /\ pc' = [pc EXCEPT ![r] = "c_delete"]
                    /\ Note(r, <<"store.delete">>)
                    /\ UNCHANGED res
                 [] OTHER ->
                    /\ Respond(r, Json(res[r].headers, 405,
                                       ErrorOnly("Method not allowed")))
                    /\ UNCHANGED <<loc, log>>
    /\ UNCHANGED <<env, table, nextId, clock, req, out, pure>>

\* The event a store call leaves when the store could not be reached.
Outage(answer) == IF answer.error = "unavailable" THEN <<"outage">> ELSE <<>>

\* The body of the 200 response of GET for the row (or null) selected
CredentialsBody(data) ==
    Obj(<<Member(<<"credentials">>,
            IF data # NoRow
            THEN Obj(<<Member(<<"id">>, Str(data.id)),
                       Member(<<"n8nUrl">>, Str(data.n8n_url)),
                       Member(<<"hasApiKey">>, Bool(TRUE)),
                       Member(<<"createdAt">>, Num(data.created_at)),
                       Member(<<"updatedAt">>, Num(data.updated_at))>>)
            ELSE Null)>>)

\* CredGet selecting every column and answering with the row as stored
CredGet_ReturnRow(r) ==
    /\ pc[r] = "c_get"
    /\ \E answer \in SelectSingle(Columns, loc[r].user) :
          IF answer.error # "" /\ answer.error # "PGRST116"
          THEN Respond(r, Json(res[r].headers, 500,
                    ErrorBody("Failed to fetch credentials",
                              "Unable to retrieve your credentials. Please try again.")))
          ELSE Respond(r, Json(res[r].headers, 200,
                    Obj(<<Member(<<"credentials">>,
                          IF answer.data # NoRow
                          THEN Obj(<<Member(<<"id">>, Str(answer.data.id)),
                                     Member(<<"n8nUrl">>, Str(answer.data.n8n_url)),
                                     Member(<<"encryptedApiKey">>,
                                            Str(answer.data.encrypted_api_key))>>)
                          ELSE Null)>>)))
    /\ UNCHANGED <<env, table, nextId, clock, req, loc, out, log, pure>>

\* GET: the select settles
CredGet(r) ==
    /\ pc[r] = "c_get"
    /\ \E answer \in SelectSingle({"id", "n8n_url", "created_at", "updated_at"},
                                  loc[r].user) :
          IF answer.error # "" /\ answer.error # "PGRST116"
          THEN Respond(r, Json(res[r].headers, 500,
                    ErrorBody("Failed to fetch credentials",
                              "Unable to retrieve your credentials. Please try again.")))
          ELSE Respond(r, Json(res[r].headers, 200, CredentialsBody(answer.data)))
    /\ UNCHANGED <<env, table, nextId, clock, req, loc, out, log, pure>>

\* POST/PUT: the existence check settles; update or insert is issued
CredExisting(r) ==
    /\ pc[r] = "c_existing"
    /\ \E answer \in SelectSingle({"id"}, loc[r].user) :
          IF answer.data # NoRow
          THEN pc' = [pc EXCEPT ![r] = "c_update"]
               /\ Note(r, Outage(answer) \o <<"store.update">>)
          ELSE pc' = [pc EXCEPT ![r] = "c_insert"]
               /\ Note(r, Outage(answer) \o <<"store.insert">>)
    /\ UNCHANGED <<env, table, nextId, clock, req, loc, res, out, pure>>

SaveValues(r) ==
    [user_id |-> loc[r].user, n8n_url |-> loc[r].n8nUrl,
     encrypted_api_key |-> loc[r].encryptedApiKey]

\* POST/PUT: the update settles
CredUpdate(r) ==
    /\ pc[r] = "c_update"
    /\ \E result \in {UpdateRows(SaveValues(r), loc[r].user), StoreUnavailable} :
          /\ table' = result.table
          /\ IF result.error # ""
             THEN Respond(r, Json(res[r].headers, 500,
                        ErrorBody("Update failed",
                                  "Unable to update credentials. Please try again.")))
             ELSE Respond(r, Json(res[r].headers, 200, SuccessBody))
          /\ Note(r, Outage(result))
    /\ UNCHANGED <<env, nextId, clock, req, loc, out, pure>>

\* POST/PUT: the insert settles
CredInsert(r) ==
    /\ pc[r] = "c_insert"
    /\ \E result \in {InsertRow(SaveValues(r)), StoreUnavailable} :
          /\ table' = result.table
          /\ nextId' = IF result.table # table THEN nextId + 1 ELSE nextId
          /\ IF result.error # ""
             THEN Respond(r, Json(res[r].headers, 500,
                        ErrorBody("Save failed",
                                  "Unable to save credentials. Please try again.")))
             ELSE Respond(r, Json(res[r].headers, 200, SuccessBody))
          /\ Note(r, Outage(result))
    /\ UNCHANGED <<env, clock, req, loc, out, pure>>

\* DELETE: the delete settles
CredDelete(r) ==
    /\ pc[r] = "c_delete"
    /\ \E result \in {DeleteRows(loc[r].user), StoreUnavailable} :
          /\ table' = result.table
          /\ IF result.error # ""
             THEN Respond(r, Json(res[r].headers, 500,
                        ErrorBody("Delete failed",
                                  "Unable to delete credentials. Please try again.")))
             ELSE Respond(r, Json(res[r].headers, 200, SuccessBody))
          /\ Note(r, Outage(result))
    /\ UNCHANGED <<env, nextId, clock, req, loc, out, pure>>

-----------------------------------------------------------------------------
(* Deployments, stored rows and inbound requests the checks range over.    *)

\* ENCRYPTION_KEY values: two 32-byte keys (openssl rand -base64 32), a
\* 16-byte and a 33-byte key; the empty text is an unset variable.
KeyA == Base64Encode(Repeat(11, KEY_BYTES))
KeyB == Base64Encode(Repeat(42, KEY_BYTES))
KeyShort == Base64Encode(Repeat(11, 16))
KeyLong == Base64Encode(Repeat(11, KEY_BYTES + 1))

SecretA == <<"s", "k", "9">>
SecretB == <<"k", "U+00E9">>
EnvSecret == <<"9", "9">>

Http == <<"h","t","t","p",":","/","/">>
UrlA == Http \o <<"a">>
UrlB == Https \o <<"b", ":", "8", "4", "4", "3", "/", "p">>
EnvUrl == Https \o <<"n">>

BaseEnv ==
    [SUPABASE_URL |-> <<"https://x.supabase.co">>,
     SUPABASE_SERVICE_ROLE_KEY |-> <<"service-role-key">>,
     ENCRYPTION_KEY |-> KeyA,
     N8N_URL |-> EnvUrl,
     N8N_API_KEY |-> EnvSecret,
     VERCEL_URL |-> <<>>,
     VERCEL_PROJECT_PRODUCTION_URL |-> <<>>,
     ALLOWED_ORIGINS |-> <<>>,
     NODE_ENV |-> <<>>]

\* A row as a save at time 0 under `key` leaves it.
StoredRow(n, user, url, secret, key) ==
    [id |-> RowId(n), user_id |-> user, n8n_url |-> url,
     encrypted_api_key |-> EncryptWith(key, Repeat(7, Cred_IV_LENGTH), secret).value,
     created_at |-> 0, updated_at |-> 0]

\* The same row after one character of its payload was altered in the store.
Tampered(row) ==
    [row EXCEPT !.encrypted_api_key =
        [@ EXCEPT ![Len(@) - 2] = IF @ = "A" THEN "B" ELSE "A"]]

InitialTables ==
    { {},
      {StoredRow(1, "u1", UrlA, SecretA, KeyA)},
      {Tampered(StoredRow(1, "u1", UrlA, SecretA, KeyA))},
      {StoredRow(1, "u1", UrlA, SecretA, KeyA),
       StoredRow(2, "u2", UrlB, SecretB, KeyA)} }

EvilOrigin == Https \o <<"e", "v", "i", "l">>

AuthorizationHeaders ==
    { Undefined, Bearer(TokenOf("u1")), Bearer(TokenOf("u2")), Bearer(ExpiredToken),
      Str(<<"B","a","s","i","c"," ","x">>) }

ProxyUrl ==
    <<"/api/n8n/proxy", "?", "path", "=", "workflows", "/", "7", "&", "limit", "=", "5">>

ProxyRequest(method, origin, authorization, body, url) ==
    [endpoint |-> "proxy", method |-> method, origin |-> origin,
     authorization |-> authorization, body |-> body, url |-> url]

CredRequest(method, origin, authorization, body) ==
    [endpoint |-> "cred", method |-> method, origin |-> origin,
     authorization |-> authorization, body |-> body,
     url |-> <<"/api/credentials">>]

SaveBody(n8nUrl, apiKey) ==
    Obj(<<Member(<<"n8nUrl">>, n8nUrl), Member(<<"apiKey">>, apiKey)>>)

IdleSlots ==
    /\ pc = [r \in Slots |-> "idle"]
    /\ req = [r \in Slots |-> NoRequest]
    /\ loc = [r \in Slots |-> NoLocals]
    /\ res = [r \in Slots |-> NoResponse]
    /\ out = [r \in Slots |-> NoFetch]
    /\ log = [r \in Slots |-> <<>>]
    /\ nextId = 3
    /\ clock = 0

Idle == IdleSlots /\ pure = [kind |-> "none"]

\* A request arrives on a free slot.
Arrive(r, request) ==
    /\ pc[r] = "idle"
    /\ clock < MaxClock
    /\ clock' = clock + 1
    /\ req' = [req EXCEPT ![r] = request]
    /\ pc' = [pc EXCEPT ![r] = IF request.endpoint = "proxy" THEN "p_start"
                               ELSE "c_start"]
    /\ loc' = [loc EXCEPT ![r].before = table]
    /\ UNCHANGED <<env, table, nextId, res, out, log, pure>>

\* The response was delivered, or the handler failed; the slot is free for
\* the next request.
Finish(r) ==
    /\ pc[r] \in {"done", "failed"}
    /\ pc' = [pc EXCEPT ![r] = "idle"]
    /\ req' = [req EXCEPT ![r] = NoRequest]
    /\ loc' = [loc EXCEPT ![r] = NoLocals]
    /\ res' = [res EXCEPT ![r] = NoResponse]
    /\ out' = [out EXCEPT ![r] = NoFetch]
    /\ log' = [log EXCEPT ![r] = <<>>]
    /\ UNCHANGED <<env, table, nextId, clock, pure>>

-----------------------------------------------------------------------------
(* SpecProxy: one proxy request at a time, over every deployment, stored   *)
(* row and request shape.                                                  *)

ProxyEnvs ==
    {[BaseEnv EXCEPT !.SUPABASE_URL = s, !.ENCRYPTION_KEY = k,
                     !.N8N_URL = u, !.N8N_API_KEY = a] :
        s \in {<<>>, BaseEnv.SUPABASE_URL},
        k \in {KeyA, KeyB, KeyShort, <<>>},
        u \in {<<>>, EnvUrl},
        a \in {<<>>, EnvSecret}}

ProxyRequests ==
    {ProxyRequest(m, Str(Localhost5173), a, b, ProxyUrl) :
        m \in {"GET", "HEAD", "POST", "DELETE", "OPTIONS"},
        a \in AuthorizationHeaders,
        b \in {Undefined, Obj(<<Member(<<"a">>, Num(1))>>)}}

InitProxy ==
    /\ env \in ProxyEnvs
    /\ table \in InitialTables
    /\ Idle

ProxyArrive == \E request \in ProxyRequests : Arrive(1, request)

NextProxy ==
    \/ ProxyArrive
    \/ ProxyStart(1)
    \/ ProxyVerify(1)
    \/ ProxyLookup(1)
    \/ ProxyRelay(1)
    \/ Finish(1)

SpecProxy == InitProxy /\ [][NextProxy]_vars

-----------------------------------------------------------------------------
(* Properties of the reverse proxy, checked under SpecProxy.               *)

KnownSecrets == {SecretA, SecretB}

\* The secrets that encrypt, under the process key, produced this payload from.
SealedSecrets(wire) ==
    {s \in KnownSecrets :
        \E iv \in RandomBytes(Cred_IV_LENGTH) :
            EncryptWith(env.ENCRYPTION_KEY, iv, s) = Returned(wire)}

HasBearer(request) ==
    IsString(request.authorization)
    /\ StartsWith(request.authorization.v, BearerPrefix)

FallbackConfigured == env.N8N_URL # <<>> /\ env.N8N_API_KEY # <<>>

\* Slot r holds a proxy request whose credential resolution has ended.
Resolved(r) ==
    /\ req[r].endpoint = "proxy"
    /\ req[r].method # "OPTIONS"
    /\ pc[r] \in {"p_fetch", "done"}

Step1Nothing(r) ==
    \/ ~HasBearer(req[r])
    \/ loc[r].user = ""
    \/ loc[r].user \in Users /\ RowsOf(loc[r].user) = {}

\* C2: when step 1 yields nothing, the request is forwarded with the
\* environment URL and secret if both are configured; otherwise nothing is
\* forwarded and the answer is 401 with a body of the members error, message.
C2_ResolutionFallback ==
    \A r \in Slots :
        (Resolved(r) /\ Step1Nothing(r))
        => IF FallbackConfigured
           THEN /\ out[r].sent
                /\ out[r].headers["X-N8N-API-KEY"] = Str(env.N8N_API_KEY)
                /\ StartsWith(out[r].url, env.N8N_URL \o <<"/">>)
           ELSE /\ ~out[r].sent
                /\ pc[r] = "done"
                /\ res[r].sent /\ res[r].status = 401
                /\ res[r].body.t = "object"
                /\ {res[r].body.v[i].k : i \in 1..Len(res[r].body.v)}
                      = {<<"error">>, <<"message">>}

C2_Witness ==
    \E r \in Slots :
        /\ Resolved(r) /\ loc[r].user = "u2" /\ RowsOf("u2") = {}
        /\ env.N8N_URL # <<>> /\ env.N8N_API_KEY = <<>>
        /\ res[r].status = 401

\* The secrets credential resolution can have produced for slot r.
ResolvedSecrets(r) ==
    IF loc[r].via = "fallback" THEN {env.N8N_API_KEY}
    ELSE UNION {SealedSecrets(row.encrypted_api_key) : row \in RowsOf(loc[r].user)}

\* C3: every outbound request carries exactly the headers X-N8N-API-KEY,
\* holding the resolved secret, and Content-Type application/json; the
\* inbound Authorization header is not among them, on either path.
C3_OutboundHeaders ==
    \A r \in Slots :
        out[r].sent =>
            /\ DOMAIN out[r].headers = {"Content-Type", "X-N8N-API-KEY"}
            /\ out[r].headers["Content-Type"] = Lit("application/json")
            /\ \E s \in ResolvedSecrets(r) : out[r].headers["X-N8N-API-KEY"] = Str(s)
            /\ \A h \in DOMAIN out[r].headers :
                  out[r].headers[h] # req[r].authorization

C3_Witness ==
    \E r \in Slots :
        /\ out[r].sent /\ HasBearer(req[r]) /\ loc[r].via = "stored"
        /\ out[r].headers["X-N8N-API-KEY"] = Str(SecretB)

\* C9: the outbound request has the inbound method; GET and HEAD carry no
\* body; any other method carries the JSON text of the inbound body (which
\* parses back to it), and nothing when the inbound body is undefined.
C9_MethodAndBody ==
    \A r \in Slots :
        out[r].sent =>
            /\ out[r].method = req[r].method
            /\ req[r].method \in {"GET", "HEAD"} => out[r].body = Undefined
            /\ (req[r].method \notin {"GET", "HEAD"} /\ req[r].body # Undefined)
                  => /\ IsString(out[r].body)
                     /\ JsonParse(out[r].body.v) = [ok |-> TRUE, value |-> req[r].body]
            /\ (req[r].method \notin {"GET", "HEAD"} /\ req[r].body = Undefined)
                  => out[r].body = Undefined

C9_Witness ==
    \E r \in Slots :
        /\ out[r].sent /\ req[r].method = "POST"
        /\ req[r].body = Obj(<<Member(<<"a">>, Num(1))>>)
        /\ out[r].body = Str(<<"{", "\"", "a", "\"", ":", "1", "}">>)

\* C10: when the upstream call completes with a status and a JSON body, the
\* response has that status and that body, whatever the status.
C10_Relay ==
    \A r \in Slots :
        (req[r].endpoint = "proxy" /\ pc[r] = "done" /\ out[r].sent
         /\ ~out[r].reply.failed /\ JsonParse(out[r].reply.body).ok)
        => /\ res[r].sent
           /\ res[r].status = out[r].reply.status
           /\ res[r].body = JsonParse(out[r].reply.body).value
           /\ JsonStringify(res[r].body) = Str(out[r].reply.body)

C10_Witness ==
    \E r \in Slots :
        /\ pc[r] = "done" /\ out[r].sent /\ ~out[r].reply.failed
        /\ out[r].reply.status = 500 /\ res[r].status = 500
        /\ res[r].body = Obj(<<Member(<<"m">>, Str(<<"e","r","r">>))>>)

-----------------------------------------------------------------------------
(* SpecCors: setSecurityHeaders of both endpoints applied to one request   *)
(* Origin, over the deployments' origin settings.                          *)

NotRun == [ran |-> FALSE]
Ran(value) == [ran |-> TRUE, value |-> value]

HostA == <<"a">>
HostP == <<"p">>
OriginB == Https \o <<"b">>
OriginC == Https \o <<"c">>

CorsEnvs ==
    {[BaseEnv EXCEPT !.VERCEL_URL = v, !.VERCEL_PROJECT_PRODUCTION_URL = p,
                     !.ALLOWED_ORIGINS = a, !.NODE_ENV = n] :
        v \in {<<>>, HostA},
        p \in {<<>>, HostP},
        a \in {<<>>, OriginB, OriginB \o <<",", " ">> \o OriginC,
               OriginB \o <<",">>, <<" ">>},
        n \in {<<>>, Production, <<"d", "e", "v">>}}

CorsOrigins ==
    {Undefined, Str(<<>>), Str(Https \o HostA), Str(Https \o HostP), Str(OriginB),
     Str(OriginC), Str(EvilOrigin), Str(Localhost5173), Str(Localhost3000)}

InitCors ==
    /\ env \in CorsEnvs
    /\ table = {}
    /\ IdleSlots
    /\ \E o \in CorsOrigins :
          pure = [kind |-> "cors", origin |-> o, cred |-> NotRun, proxy |-> NotRun]

\* api/credentials handler, first statement
CorsCred ==
    /\ pure.kind = "cors"
    /\ ~pure.cred.ran
    /\ pure' = [pure EXCEPT !.cred = Ran(SetSecurityHeaders(pure.origin))]
    /\ UNCHANGED <<env, table, nextId, clock, pc, req, loc, res, out, log>>

\* proxy handler, first statement
CorsProxy ==
    /\ pure.kind = "cors"
    /\ ~pure.proxy.ran
    /\ pure' = [pure EXCEPT !.proxy = Ran(Proxy_SetSecurityHeaders(pure.origin))]
    /\ UNCHANGED <<env, table, nextId, clock, pc, req, loc, res, out, log>>

NextCors == CorsCred \/ CorsProxy

SpecCors == InitCors /\ [][NextCors]_vars

Acao == "Access-Control-Allow-Origin"

\* The headers computed so far, each with the allow-list of its endpoint.
CorsComputed ==
    (IF pure.kind = "cors" /\ pure.cred.ran
     THEN {[list |-> GetAllowedOrigins, headers |-> pure.cred.value]} ELSE {})
    \cup
    (IF pure.kind = "cors" /\ pure.proxy.ran
     THEN {[list |-> Proxy_GetAllowedOrigins, headers |-> pure.proxy.value]} ELSE {})

\* C5: on both endpoints and for every allow-list the settings can produce, a
\* request whose Origin (absent = empty string) is not a member of the list
\* gets no Access-Control-Allow-Origin header, and one whose Origin is a
\* member gets the header set to exactly that origin.
C5_OriginGating ==
    \A c \in CorsComputed :
        LET o == OrEmpty(pure.origin)
        IN  /\ ~Includes(c.list, o) => Acao \notin DOMAIN c.headers
            /\ Includes(c.list, o) =>
                  Acao \in DOMAIN c.headers /\ c.headers[Acao] = Str(o)

-----------------------------------------------------------------------------
(* SpecCrypto: encrypt of api/credentials and decrypt of the proxy applied *)
(* to secrets, under every shape of the process key.                       *)

MaxSecretLen == 2
SecretChars == {"s", "k", "9", "U+00E9", "U+20AC"}
LongSecret == Repeat("s", MAX_API_KEY_LENGTH)

\* The secrets isValidApiKey accepts, up to the bound, and the longest one.
CryptoSecrets ==
    {x \in UNION {[1..n -> SecretChars] : n \in 1..MaxSecretLen} : IsValidApiKey(Str(x))}
    \cup {LongSecret}

CryptoKeys == {KeyA, KeyB, KeyShort, KeyLong, <<>>}

ValidKey(k) == k # <<>> /\ Len(Base64Decode(k)) = KEY_BYTES

\* `wire` starts as a payload that was stored while the key was KeyA.
InitCrypto ==
    /\ env \in {[BaseEnv EXCEPT !.ENCRYPTION_KEY = k] : k \in CryptoKeys}
    /\ table = {}
    /\ IdleSlots
    /\ \E s \in CryptoSecrets, iv \in RandomBytes(Cred_IV_LENGTH) :
          pure = [kind |-> "crypto", plaintext |-> s, iv |-> iv,
                  wire |-> EncryptWith(KeyA, iv, s).value, fresh |-> FALSE,
                  enc |-> NotRun, dec |-> NotRun]

\* api/credentials: encrypt(apiKey)
CryptoEncrypt ==
    /\ pure.kind = "crypto"
    /\ ~pure.enc.ran /\ ~pure.dec.ran
    /\ LET e == Encrypt(pure.plaintext, pure.iv)
       IN  pure' = [pure EXCEPT !.enc = Ran(e),
                                !.wire = IF e.ok THEN e.value ELSE @,
                                !.fresh = e.ok]
    /\ UNCHANGED <<env, table, nextId, clock, pc, req, loc, res, out, log>>

\* proxy: decrypt(data.encrypted_api_key)
CryptoDecrypt ==
    /\ pure.kind = "crypto"
    /\ ~pure.dec.ran
    /\ pure' = [pure EXCEPT !.dec = Ran(Decrypt(pure.wire))]
    /\ UNCHANGED <<env, table, nextId, clock, pc, req, loc, res, out, log>>

NextCrypto == CryptoEncrypt \/ CryptoDecrypt

SpecCrypto == InitCrypto /\ [][NextCrypto]_vars

\* C6: for every valid secret s and every valid 32-byte process key, the
\* proxy's decrypt applied to the endpoint's encrypt of s returns s; and the
\* split decrypt makes of the decoded bytes (16 bytes of IV, 16 of tag, the
\* rest ciphertext) gives back the three parts encrypt concatenated.
C6_RoundTrip ==
    (pure.kind = "crypto" /\ ValidKey(env.ENCRYPTION_KEY) /\ pure.enc.ran) =>
        LET sealed == GcmSeal(Base64Decode(env.ENCRYPTION_KEY), pure.iv,
                              Utf8Encode(pure.plaintext))
        IN  /\ pure.enc.value.ok /\ pure.fresh
            /\ DecryptSplit(Base64Decode(pure.wire)) =
                  [iv |-> pure.iv, authTag |-> sealed.authTag,
                   ciphertext |-> sealed.ciphertext]
            /\ pure.dec.ran => pure.dec.value = Returned(pure.plaintext)

\* A secret with multi-byte characters went through encrypt and decrypt.
C6_Witness ==
    /\ pure.kind = "crypto" /\ ValidKey(env.ENCRYPTION_KEY)
    /\ pure.enc.ran /\ pure.dec.ran /\ pure.fresh
    /\ pure.plaintext = <<"U+20AC", "U+00E9">>
    /\ pure.dec.value.ok

-----------------------------------------------------------------------------
(* Spec: both endpoints serving requests one after another, and encrypt    *)
(* and decrypt on their own, under every shape of the process key.         *)

KeyEnvs ==
    {[BaseEnv EXCEPT !.ENCRYPTION_KEY = k, !.N8N_URL = f[1], !.N8N_API_KEY = f[2]] :
        k \in {KeyA, KeyShort, KeyLong, <<>>},
        f \in {<<EnvUrl, EnvSecret>>, <<(<<>>), (<<>>)>>}}

ServeTables ==
    { {},
      {StoredRow(1, "u1", UrlA, SecretA, KeyA)},
      {StoredRow(1, "u1", UrlA, SecretA, KeyA),
       StoredRow(2, "u2", UrlB, SecretB, KeyA)} }

Requests ==
    {CredRequest("POST", Str(Localhost5173), Bearer(TokenOf(u)),
                 SaveBody(Str(UrlB), Str(SecretB))) : u \in Users}
    \cup
    {CredRequest(m, Str(Localhost5173), Bearer(TokenOf("u1")), Undefined) :
        m \in {"GET", "DELETE"}}
    \cup
    {ProxyRequest("GET", Str(Localhost5173), a, Undefined, ProxyUrl) :
        a \in {Undefined, Bearer(TokenOf("u1")), Bearer(TokenOf("u2"))}}

InitServe ==
    /\ env \in KeyEnvs
    /\ table \in ServeTables
    /\ Idle

Init == InitServe \/ InitCrypto

\* A request arrives at a deployment that is serving.
ServeArrive ==
    /\ pure.kind = "none"
    /\ \E request \in Requests : Arrive(1, request)

Next ==
    \/ ServeArrive
    \/ ProxyStart(1)
    \/ ProxyVerify(1)
    \/ ProxyLookup(1)
    \/ ProxyRelay(1)
    \/ CredStart(1)
    \/ CredVerify(1)
    \/ CredGet(1)
    \/ CredExisting(1)
    \/ CredUpdate(1)
    \/ CredInsert(1)
    \/ CredDelete(1)
    \/ Finish(1)
    \/ CryptoEncrypt
    \/ CryptoDecrypt

Spec == Init /\ [][Next]_vars

\* C7: when the process key is absent or decodes to a length other than 32
\* bytes, encrypt and decrypt both fail before any cipher operation; no record
\* is then ever written (the table only holds rows it started with), and no
\* upstream request is sent with a secret taken from a stored record.
C7_KeyFailsClosed ==
    ~ValidKey(env.ENCRYPTION_KEY) =>
        /\ pure.kind = "crypto" =>
              /\ pure.enc.ran => ~pure.enc.value.ok /\ ~pure.enc.value.cipher
              /\ pure.dec.ran => ~pure.dec.value.ok /\ ~pure.dec.value.cipher
        /\ \A r \in Slots :
              /\ ~Includes(log[r], "cipher") /\ ~Includes(log[r], "decipher")
              /\ ~Includes(log[r], "store.update") /\ ~Includes(log[r], "store.insert")
              /\ pc[r] \notin {"c_existing", "c_update", "c_insert"}
              /\ out[r].sent =>
                    /\ loc[r].via = "fallback"
                    /\ out[r].headers["X-N8N-API-KEY"] = Str(env.N8N_API_KEY)
        /\ table \subseteq UNION ServeTables

\* Under a 33-byte key, encrypt and then decrypt of a stored payload have
\* both been called.
C7_Witness ==
    /\ env.ENCRYPTION_KEY = KeyLong
    /\ pure.kind = "crypto" /\ pure.enc.ran /\ pure.dec.ran

-----------------------------------------------------------------------------
(* SpecCred: one request to api/credentials at a time, over every method,  *)
(* Authorization header and shape of the save body.                        *)

Euro == <<"U+20AC">>
TooLong == Repeat("U+20AC", MAX_API_KEY_LENGTH + 1)
Longest == Repeat("U+20AC", MAX_API_KEY_LENGTH)
FtpUrl == <<"f","t","p",":","/","/","a">>
NotAUrl == <<"n","o","t"," ","a"," ","u","r","l">>

SaveBodies ==
    { Undefined,
      Obj(<<>>),
      Obj(<<Member(<<"n8nUrl">>, Str(UrlA))>>),
      Obj(<<Member(<<"apiKey">>, Str(SecretA))>>),
      SaveBody(Str(UrlA), Str(SecretA)),
      SaveBody(Str(UrlB), Str(SecretB)),
      SaveBody(Str(UrlA), Str(Euro)),
      SaveBody(Str(UrlA), Str(Longest)),
      SaveBody(Str(UrlA), Str(TooLong)),
      SaveBody(Str(UrlA), Str(<<>>)),
      SaveBody(Str(UrlA), Num(7)),
      SaveBody(Str(UrlA), Null),
      SaveBody(Str(<<>>), Str(SecretA)),
      SaveBody(Str(FtpUrl), Str(SecretA)),
      SaveBody(Str(NotAUrl), Str(SecretA)),
      SaveBody(Str(Http), Str(SecretA)),
      SaveBody(Num(7), Str(SecretA)),
      SaveBody(Str(FtpUrl), Str(TooLong)) }

CredEnvs ==
    {[BaseEnv EXCEPT !.ENCRYPTION_KEY = k] : k \in {KeyA, KeyShort, <<>>}}
    \cup {[BaseEnv EXCEPT !.SUPABASE_URL = <<>>],
           [BaseEnv EXCEPT !.SUPABASE_SERVICE_ROLE_KEY = <<>>]}

CredRequests ==
    {CredRequest(m, Str(Localhost5173), a, b) :
        m \in {"POST", "PUT"}, a \in {Undefined, Bearer(TokenOf("u1")), Bearer(ExpiredToken)},
        b \in SaveBodies}
    \cup
    {CredRequest(m, Str(Localhost5173), a, Undefined) :
        m \in {"GET", "DELETE", "OPTIONS", "PATCH"}, a \in AuthorizationHeaders}

InitCred ==
    /\ env \in CredEnvs
    /\ table \in ServeTables
    /\ Idle

CredArrive == \E request \in CredRequests : Arrive(1, request)

NextCred ==
    \/ CredArrive
    \/ CredStart(1)
    \/ CredVerify(1)
    \/ CredGet(1)
    \/ CredExisting(1)
    \/ CredUpdate(1)
    \/ CredInsert(1)
    \/ CredDelete(1)
    \/ Finish(1)

SpecCred == InitCred /\ [][NextCred]_vars

\* Every text a response carries: its body as JSON and its header values.
ResponseTexts(r) ==
    (IF res[r].body.t = "undefined" THEN {} ELSE {JsonText(res[r].body)})
    \cup {res[r].headers[h].v : h \in DOMAIN res[r].headers}

\* The secrets in play for a request: the stored ones and the one submitted.
PlainSecrets(r) ==
    KnownSecrets \cup
    (LET apiKey == IF req[r].body.t = "object"
                   THEN Prop(req[r].body, <<"apiKey">>) ELSE Undefined
     IN  IF IsString(apiKey) /\ apiKey.v # <<>> THEN {apiKey.v} ELSE {})

\* Their encrypted forms: the payloads stored before and now, and the one
\* this request computed.
EncryptedSecrets(r) ==
    ({row.encrypted_api_key : row \in table \cup loc[r].before}
     \cup {loc[r].encryptedApiKey}) \ {<<>>}

GetKeys == <<(<<"id">>), (<<"n8nUrl">>), (<<"hasApiKey">>), (<<"createdAt">>),
             (<<"updatedAt">>)>>

\* The 200 body of GET for the rows the caller has: null for none, else the
\* five members, in the order of the literal, with the row's values.
GetShape(body, rows) ==
    /\ body.t = "object" /\ Len(body.v) = 1 /\ body.v[1].k = <<"credentials">>
    /\ LET c == body.v[1].x
       IN  IF rows = {}
           THEN c = Null
           ELSE /\ c.t = "object"
                /\ [i \in 1..Len(c.v) |-> c.v[i].k] = GetKeys
                /\ \E row \in rows :
                      [i \in 1..Len(c.v) |-> c.v[i].x] =
                         <<Str(row.id), Str(row.n8n_url), Bool(TRUE),
                           Num(row.created_at), Num(row.updated_at)>>

\* C4: no response of the credential endpoint, on any method and on any
\* success or error path, contains a plaintext secret or an encrypted payload;
\* the 200 response of GET is {credentials: {id, n8nUrl, hasApiKey: true,
\* createdAt, updatedAt}} for a user with a record and {credentials: null}
\* for a user without one.
C4_NoSecretInResponse ==
    \A r \in Slots :
        (req[r].endpoint = "cred" /\ res[r].sent) =>
            /\ \A text \in ResponseTexts(r) :
                  \A secret \in PlainSecrets(r) \cup EncryptedSecrets(r) :
                      ~Contains(text, secret)
            /\ (req[r].method = "GET" /\ res[r].status = 200) =>
                  GetShape(res[r].body, RowsOf(loc[r].user))

\* GET answered 200 with the caller's record.
C4_Witness ==
    /\ req[1].endpoint = "cred" /\ req[1].method = "GET"
    /\ res[1].sent /\ res[1].status = 200
    /\ res[1].body.v[1].x # Null
    /\ RowsOf(loc[1].user) # {}

IsSave(r) == req[r].endpoint = "cred" /\ req[r].method \in {"POST", "PUT"}

\* The save's body as the claim reads it: the URL parses with scheme http: or
\* https:, and the secret is a string of 1 to 500 characters.
ValidSave(body) ==
    LET b == IF body.t = "object" THEN body ELSE Obj(<<>>)
        n8nUrl == Prop(b, <<"n8nUrl">>)
        apiKey == Prop(b, <<"apiKey">>)
        parsed == ParseUrl(ToText(n8nUrl))
    IN  /\ n8nUrl.t # "undefined"
        /\ parsed.ok
        /\ parsed.protocol \in {<<"h","t","t","p",":">>, <<"h","t","t","p","s",":">>}
        /\ apiKey.t = "string"
        /\ Len(apiKey.v) \in 1..500

StoreEvents == {"store.select", "store.update", "store.insert", "store.delete"}

\* C8: a save that got past authentication is accepted (goes on to encrypt)
\* if and only if its URL parses with scheme http: or https: and its secret is
\* a string of length 1 to 500; every other save is answered 400, nothing was
\* encrypted and the record store was neither read nor written.
C8_SaveValidation ==
    \A r \in Slots :
        (/\ IsSave(r)
         /\ pc[r] \in {"c_existing", "c_update", "c_insert", "done"}
         /\ res[r].status \notin {401, 503}) =>
            IF ValidSave(req[r].body)
            THEN res[r].status # 400 /\ Includes(log[r], "encrypt")
            ELSE /\ pc[r] = "done" /\ res[r].sent /\ res[r].status = 400
                 /\ \A i \in 1..Len(log[r]) :
                       log[r][i] \notin StoreEvents \cup {"encrypt", "cipher"}
                 /\ loc[r].encryptedApiKey = <<>>
                 /\ table = loc[r].before

\* A save with a 501-character secret was answered 400.
C8_Witness ==
    /\ IsSave(1)
    /\ req[1].body = SaveBody(Str(UrlA), Str(TooLong))
    /\ res[1].sent /\ res[1].status = 400

-----------------------------------------------------------------------------
(* Error paths of the proxy.                                               *)

\* The upstream call of slot r did not complete: fetch rejected, or the
\* body it delivered is not JSON.
UpstreamFailed(r) ==
    /\ req[r].endpoint = "proxy" /\ pc[r] = "done" /\ out[r].sent
    /\ out[r].reply.failed \/ ~JsonParse(out[r].reply.body).ok

\* The texts of the exception the proxy caught for slot r.
CaughtTexts(r) ==
    IF out[r].reply.failed THEN {<<out[r].reply.error>>}
    ELSE {<<JsonSyntaxError>>} \cup ({out[r].reply.body} \ {<<>>})

\* C11: whenever the upstream call cannot complete (fetch rejects for a
\* network failure or a timeout, or the body is not JSON), the proxy answers
\* 502 with the one fixed body, the same for every cause, and no text of the
\* response contains the caught exception's message or the unparsable body.
C11_UpstreamFailure ==
    \A r \in Slots :
        UpstreamFailed(r) =>
            /\ res[r].sent /\ res[r].status = 502
            /\ res[r].body = ErrorBody("Connection failed",
                  "Unable to connect to n8n. Please check your configuration.")
            /\ \A text \in ResponseTexts(r), caught \in CaughtTexts(r) :
                  ~Contains(text, caught)

\* The upstream timed out and the proxy has answered.
C11_Witness ==
    /\ UpstreamFailed(1)
    /\ out[1].reply.error = "Headers Timeout Error"
    /\ res[1].status = 502

\* The messages of the errors the handlers catch or are handed: thrown by
\* encrypt and decrypt, returned by the record store, raised by fetch and by
\* response.json().
InternalTexts ==
    {"Encryption not configured", "Invalid encryption configuration",
     "Unsupported state or unable to authenticate data",
     "PGRST116", "23505", "unavailable", JsonSyntaxError} \cup FetchErrors

NoInternalText(r) ==
    \A text \in ResponseTexts(r), e \in InternalTexts : ~Contains(text, <<e>>)

\* The upstream answered slot r with a body.
UpstreamAnswered(r) ==
    /\ req[r].endpoint = "proxy" /\ pc[r] = "done" /\ out[r].sent
    /\ ~out[r].reply.failed /\ out[r].reply.body # <<>>

\* C12: no response of either endpoint contains internal exception text, and
\* no response of the proxy contains the body of an upstream error response,
\* also when the upstream answers an error status with a JSON error body.
C12_NothingEchoed ==
    \A r \in Slots :
        res[r].sent =>
            /\ NoInternalText(r)
            /\ (UpstreamAnswered(r) /\ out[r].reply.status >= 400) =>
                  \A text \in ResponseTexts(r) : ~Contains(text, out[r].reply.body)

\* C12 (amended): no response of either endpoint contains internal exception
\* text, and an upstream body that is not JSON is never echoed; an upstream
\* JSON body is relayed as it is, with its status, also when the status is
\* an error status.
C12_OnlyUpstreamJsonEchoed ==
    \A r \in Slots :
        res[r].sent =>
            /\ NoInternalText(r)
            /\ UpstreamAnswered(r) =>
                  IF JsonParse(out[r].reply.body).ok
                  THEN /\ res[r].status = out[r].reply.status
                       /\ JsonText(res[r].body) = out[r].reply.body
                  ELSE \A text \in ResponseTexts(r) :
                          ~Contains(text, out[r].reply.body)

\* The upstream answered 500 with a JSON error body and the proxy has
\* answered.
C12_Witness ==
    /\ UpstreamAnswered(1) /\ res[1].sent
    /\ out[1].reply.status = 500
    /\ JsonParse(out[1].reply.body).ok

-----------------------------------------------------------------------------
(* Error paths of api/credentials.                                         *)

\* SUPABASE_URL or SUPABASE_SERVICE_ROLE_KEY is not set.
IdentityConfigAbsent ==
    env.SUPABASE_URL = <<>> \/ env.SUPABASE_SERVICE_ROLE_KEY = <<>>

Answered(r) == req[r].endpoint = "cred" /\ pc[r] = "done" /\ res[r].sent

\* C13: when the identity-service configuration is absent, api/credentials
\* answers every request, whatever its method, with the fixed 503 'not
\* configured' response, before any token verification or store access.
C13_NotConfigured ==
    \A r \in Slots :
        (IdentityConfigAbsent /\ Answered(r)) =>
            /\ res[r].status = 503 /\ res[r].body = NotConfigured
            /\ log[r] = <<>>

\* C13 (amended): when the identity-service configuration is absent,
\* api/credentials answers every request other than the pre-flight OPTIONS
\* with the fixed 503 'not configured' response, and OPTIONS with 200 and no
\* body; in both cases before any token verification or store access.
C13_NotConfiguredExceptPreflight ==
    \A r \in Slots :
        (IdentityConfigAbsent /\ Answered(r)) =>
            /\ IF req[r].method = "OPTIONS"
               THEN res[r].status = 200 /\ res[r].body = Undefined
               ELSE res[r].status = 503 /\ res[r].body = NotConfigured
            /\ log[r] = <<>>

\* A save with a verifiable token was answered while the configuration was
\* absent.
C13_Witness ==
    /\ IdentityConfigAbsent /\ Answered(1)
    /\ req[1].method = "POST"
    /\ req[1].authorization = Bearer(TokenOf("u1"))
    /\ res[1].status = 503

\* C14: on api/credentials the 401 response for a request with no bearer
\* token and the 401 response for a request whose token is invalid or expired
\* are identical in status and body: every 401 carries the body the
\* missing-token check answers with.
C14_SameUnauthorized ==
    \A r \in Slots :
        (Answered(r) /\ res[r].status = 401) =>
            res[r].body = ErrorOnly("Unauthorized")

\* The save of slot r failed on the configuration: a setting is missing,
\* or encrypt threw on the process key.
ConfigurationFailure(r) ==
    /\ Answered(r) /\ req[r].method # "OPTIONS"
    /\ \/ ~IsConfigured
       \/ Includes(log[r], "encrypt") /\ ~Includes(log[r], "cipher")

\* C15: whenever a request to api/credentials fails because the process key
\* is missing or does not decode to 32 bytes, or because identity-service
\* settings are missing, the response status is 503; in particular a save
\* attempted with a present key of the wrong length is answered 503.
C15_ConfigurationIs503 ==
    \A r \in Slots :
        ConfigurationFailure(r) => res[r].status = 503

-----------------------------------------------------------------------------
(* Resolution when the stored record is missing or does not decrypt.       *)

\* The store answered the lookup of slot r: there is no row for the user.
NoRecord(r) ==
    /\ RowsOf(loc[r].user) = {}
    /\ ~Includes(log[r], "store.unavailable")

\* The store returned the user's row and decrypt threw on its payload.
DecryptFailed(r) ==
    /\ Includes(log[r], "decrypt")
    /\ \E row \in RowsOf(loc[r].user) : ~Decrypt(row.encrypted_api_key).ok

\* What a verified user without a record gets: the request forwarded with
\* the environment pair and the upstream's answer relayed, or the 401.
FallbackOutcome(r) ==
    LET headers == Proxy_SetSecurityHeaders(req[r].origin)
        sent == FetchRequest(Credentials(env.N8N_URL, env.N8N_API_KEY), req[r])
    IN  IF FallbackConfigured
        THEN /\ out[r].sent
             /\ \A f \in {"url", "method", "headers", "body"} : out[r][f] = sent[f]
             /\ pc[r] = "done" => res[r] = Relay(headers, out[r].reply)
        ELSE /\ ~out[r].sent
             /\ pc[r] = "done"
             /\ res[r] = Json(headers, 401, ConfigurationRequired)

\* C16: for a proxy request of a verified user, the outcome when the stored
\* record does not decrypt (tampered payload, or a different or malformed
\* process key) is the outcome when the user has no record, under the same
\* fallback configuration: the same outbound request and relayed answer, or,
\* with no fallback, the same 401 'Configuration required' response.
C16_IntegrityNotSignalled ==
    \A r \in Slots :
        (Resolved(r) /\ loc[r].user \in Users
         /\ (NoRecord(r) \/ DecryptFailed(r)))
        => FallbackOutcome(r)

\* A tampered payload under the right key, no fallback: answered 401.
C16_Witness ==
    /\ Resolved(1) /\ loc[1].user = "u1" /\ DecryptFailed(1)
    /\ env.ENCRYPTION_KEY = KeyA /\ ~FallbackConfigured
    /\ res[1].status = 401

-----------------------------------------------------------------------------
(* Saves repeated and saves racing.                                        *)

\* The secret a save request submits.
SubmittedSecret(r) == Prop(req[r].body, <<"apiKey">>).v

\* Slot r holds a save answered {success: true}.
SaveSucceeded(r) ==
    IsSave(r) /\ pc[r] = "done" /\ res[r].status = 200 /\ res[r].body = SuccessBody

\* The save of slot r repeated one: it found the user's record as a save
\* of the same URL and secret leaves it.
RepeatedSave(r) ==
    /\ SaveSucceeded(r)
    /\ \E old \in loc[r].before :
          /\ old.user_id = loc[r].user
          /\ old.n8n_url = loc[r].n8nUrl
          /\ Decrypt(old.encrypted_api_key) = Returned(SubmittedSecret(r))

\* C17: a save performed twice in succession with identical input leaves the
\* stored record in the state the first save left it in.
C17_SaveIdempotent ==
    \A r \in Slots : RepeatedSave(r) => table = loc[r].before

\* C17 (amended): a save performed twice in succession with identical input
\* leaves every other record as it was and the user's record with the same
\* id, server URL and creation time and with a payload that decrypts to the
\* same secret; the payload itself may differ (a fresh IV for each save).
C17_SaveIdempotentUpToPayload ==
    \A r \in Slots :
        RepeatedSave(r) =>
            /\ Cardinality(table) = Cardinality(loc[r].before)
            /\ \A row \in table :
                  \E old \in loc[r].before :
                     /\ [row EXCEPT !.encrypted_api_key = old.encrypted_api_key,
                                    !.updated_at = old.updated_at] = old
                     /\ row.user_id # loc[r].user => row = old
                     /\ row.user_id = loc[r].user =>
                           Decrypt(row.encrypted_api_key) = Returned(SubmittedSecret(r))

\* A repeated save that changed the stored payload.
C17_Witness ==
    /\ RepeatedSave(1)
    /\ table # loc[1].before
    /\ loc[1].before # {}

-----------------------------------------------------------------------------
(* SpecRace: save and delete requests of the credential endpoint in flight *)
(* together, their store calls settling in any order.                      *)

RaceRequests ==
    {CredRequest("POST", Str(Localhost5173), Bearer(TokenOf("u1")),
                 SaveBody(Str(UrlB), Str(SecretB))),
     CredRequest("PUT", Str(Localhost5173), Bearer(TokenOf("u2")),
                 SaveBody(Str(UrlB), Str(SecretB))),
     CredRequest("DELETE", Str(Localhost5173), Bearer(TokenOf("u1")), Undefined)}

InitRace ==
    /\ env = BaseEnv
    /\ table \in { {}, {StoredRow(1, "u1", UrlA, SecretA, KeyA)} }
    /\ Idle

\* A request arrives while at most one other is in flight, and is served on
\* the first free of two slots.
RaceArrive ==
    \E r \in {1, 2}, request \in RaceRequests :
        /\ \A q \in 1..(r - 1) : pc[q] # "idle"
        /\ Arrive(r, request)

NextRace ==
    \/ RaceArrive
    \/ \E r \in {1, 2} :
          \/ CredStart(r)
          \/ CredVerify(r)
          \/ CredExisting(r)
          \/ CredUpdate(r)
          \/ CredInsert(r)
          \/ CredDelete(r)
          \/ Finish(r)

SpecRace == InitRace /\ [][NextRace]_vars

\* C18: in every reachable state of the record store, after any sequence and
\* interleaving of save and delete requests from any users, there is at most
\* one credential record per user_id.
C18_OneRecordPerUser ==
    \A u \in Users : Cardinality(RowsOf(u)) <= 1

\* Two saves of one user both found no record and both issued an insert;
\* both inserts have settled.
C18_Witness ==
    /\ IsSave(1) /\ IsSave(2)
    /\ loc[1].user = loc[2].user
    /\ Includes(log[1], "store.insert") /\ Includes(log[2], "store.insert")
    /\ ~Includes(log[1], "outage") /\ ~Includes(log[2], "outage")
    /\ pc[1] = "done" /\ pc[2] = "done"
    /\ RowsOf(loc[1].user) # {}

\* Slot r holds a save with valid input by an authenticated user whose
\* response was sent and whose store calls all reached the store.
SaveCompleted(r) ==
    /\ IsSave(r) /\ ValidSave(req[r].body)
    /\ pc[r] = "done"
    /\ loc[r].user # ""
    /\ ~Includes(log[r], "outage")

\* The user's record holds the server URL and the secret that slot r submitted.
RecordHolds(r) ==
    \E row \in RowsOf(loc[r].user) :
        /\ row.n8n_url = loc[r].n8nUrl
        /\ Decrypt(row.encrypted_api_key) = Returned(SubmittedSecret(r))

\* C19: two concurrent save requests for the same user with valid input are
\* resolved by last-write-wins under every interleaving of their store
\* operations: both complete with {success: true} and the final record holds
\* the server URL and secret of one of the two requests.
C19_LastWriteWins ==
    \A r1, r2 \in Slots :
        (r1 # r2 /\ SaveCompleted(r1) /\ SaveCompleted(r2)
           /\ loc[r1].user = loc[r2].user) =>
            /\ res[r1].status = 200 /\ res[r1].body = SuccessBody
            /\ res[r2].status = 200 /\ res[r2].body = SuccessBody
            /\ RecordHolds(r1) \/ RecordHolds(r2)

-----------------------------------------------------------------------------
(* SpecForward: the reverse proxy serving requests whose URLs carry the    *)
(* rewritten path and further query parameters in every shape.             *)

ProxyEndpoint == <<"/api/n8n/proxy">>

ForwardUrls ==
    { ProxyUrl,
      ProxyEndpoint,
      ProxyEndpoint \o <<"?", "path", "=", "workflows", "&", "path", "=", "7",
                         "&", "active", "=", "true">>,
      ProxyEndpoint \o <<"?", "limit", "=", "5", "&", "path", "=", "executions",
                         "&", "cursor", "=", "a", "%", "2", "f", "b", "+", "c">>,
      ProxyEndpoint \o <<"?", "path", "=", "workflows", "%", "2", "F", "7",
                         "&", "q", "=", "a", "%", "2", "6", "b", "%", "3", "D", "c",
                         "&", "flag">>,
      ProxyEndpoint \o <<"?", "path", "=", "&", "limit", "=", "5">>,
      ProxyEndpoint \o <<"?", "limit", "=", "5", "&", "limit", "=", "6",
                         "&", "path", "=", "tags">>,
      ProxyEndpoint \o <<"?", "path", "=", "workflows">> }

ForwardRequests ==
    {ProxyRequest("GET", Str(Localhost5173), a, Undefined, u) :
        a \in {Undefined, Bearer(TokenOf("u1")), Bearer(TokenOf("u2"))},
        u \in ForwardUrls}

InitForward ==
    /\ env = BaseEnv
    /\ table \in ServeTables
    /\ Idle

ForwardArrive == \E request \in ForwardRequests : Arrive(1, request)

NextForward ==
    \/ ForwardArrive
    \/ ProxyStart(1)
    \/ ProxyVerify(1)
    \/ ProxyLookup(1)
    \/ ProxyRelay(1)
    \/ Finish(1)

SpecForward == InitForward /\ [][NextForward]_vars

\* The server URL the resolver chose for the request of slot r.
ResolvedUrl(r) ==
    IF loc[r].via = "stored"
    THEN (CHOOSE row \in RowsOf(loc[r].user) : TRUE).n8n_url
    ELSE env.N8N_URL

\* C20: for every forwarded request the outbound URL is the resolved
\* server_url, then '/', then the inbound path segments joined with '/',
\* then (when any remain) '?' and all inbound query parameters with their
\* values except the routing parameter 'path', which never appears in the
\* outbound query.
C20_OutboundUrl ==
    \A r \in Slots :
        out[r].sent =>
            LET inbound == ParseQuery(Search(req[r].url))
                routed == SelectSeq(inbound, LAMBDA p : p.name = PathName)
                others == SelectSeq(inbound, LAMBDA p : p.name # PathName)
                prefix == ResolvedUrl(r) \o <<"/">>
                          \o Join([i \in 1..Len(routed) |-> routed[i].value], <<"/">>)
                rest == SubSeq(out[r].url, Len(prefix) + 1, Len(out[r].url))
            IN  /\ StartsWith(out[r].url, prefix)
                /\ IF others = <<>> THEN rest = <<>>
                   ELSE /\ rest[1] = "?"
                        /\ ParseQuery(Tail(rest)) = others
                        /\ \A i \in 1..Len(ParseQuery(Tail(rest))) :
                              ParseQuery(Tail(rest))[i].name # PathName

\* A request with the routing parameter between two further parameters, one
\* of them with escaped characters, was forwarded to the stored server URL.
C20_Witness ==
    /\ out[1].sent /\ loc[1].via = "stored" /\ loc[1].user = "u1"
    /\ req[1].url = ProxyEndpoint \o
          <<"?", "limit", "=", "5", "&", "path", "=", "executions",
            "&", "cursor", "=", "a", "%", "2", "f", "b", "+", "c">>
    /\ out[1].url = UrlA \o
          <<"/", "executions", "?", "limit", "=", "5",
            "&", "cursor", "=", "a", "%", "2", "F", "b", "+", "c">>

-----------------------------------------------------------------------------
(* SpecEndpoints: both endpoints serving one request after another, over   *)
(* every method, kind of Authorization header, origin and configuration.   *)

EndpointEnvs ==
    { BaseEnv,
      [BaseEnv EXCEPT !.SUPABASE_URL = <<>>],
      [BaseEnv EXCEPT !.N8N_URL = <<>>, !.N8N_API_KEY = <<>>],
      [BaseEnv EXCEPT !.NODE_ENV = Production, !.ALLOWED_ORIGINS = OriginB,
                      !.ENCRYPTION_KEY = KeyShort] }

EndpointOrigins == {Undefined, Str(Localhost5173), Str(EvilOrigin)}

EndpointAuthorizations ==
    {Undefined, Bearer(TokenOf("u1")), Bearer(ExpiredToken)}

EndpointRequests ==
    {CredRequest(m, o, a, Undefined) :
        m \in {"OPTIONS", "GET", "DELETE", "PATCH"},
        o \in EndpointOrigins, a \in EndpointAuthorizations}
    \cup
    {CredRequest(m, o, a, b) :
        m \in {"POST", "PUT"}, o \in EndpointOrigins, a \in EndpointAuthorizations,
        b \in {SaveBody(Str(UrlB), Str(SecretB)), Obj(<<>>)}}
    \cup
    {ProxyRequest(m, o, a, Undefined, ProxyUrl) :
        m \in {"OPTIONS", "GET", "POST"},
        o \in EndpointOrigins, a \in EndpointAuthorizations}

InitEndpoints ==
    /\ env \in EndpointEnvs
    /\ table \in { {}, {StoredRow(1, "u1", UrlA, SecretA, KeyA)} }
    /\ Idle

EndpointArrive == \E request \in EndpointRequests : Arrive(1, request)

NextEndpoints ==
    \/ EndpointArrive
    \/ ProxyStart(1)
    \/ ProxyVerify(1)
    \/ ProxyLookup(1)
    \/ ProxyRelay(1)
    \/ CredStart(1)
    \/ CredVerify(1)
    \/ CredGet(1)
    \/ CredExisting(1)
    \/ CredUpdate(1)
    \/ CredInsert(1)
    \/ CredDelete(1)
    \/ Finish(1)

SpecEndpoints == InitEndpoints /\ [][NextEndpoints]_vars

\* The headers carry the method and header allow-lists, nosniff, DENY and
\* the referrer policy.
Hardened(headers) ==
    /\ {"Access-Control-Allow-Methods", "Access-Control-Allow-Headers",
        "X-Content-Type-Options", "X-Frame-Options", "Referrer-Policy"}
          \subseteq DOMAIN headers
    /\ headers["Access-Control-Allow-Methods"] = Lit("GET, POST, PUT, DELETE, OPTIONS")
    /\ headers["Access-Control-Allow-Headers"] = Lit("Content-Type, Authorization")
    /\ headers["X-Content-Type-Options"] = Lit("nosniff")
    /\ headers["X-Frame-Options"] = Lit("DENY")
    /\ headers["Referrer-Policy"] = Lit("strict-origin-when-cross-origin")

\* The handler of slot r has run past its first step.
Started(r) == pc[r] \notin {"idle", "c_start", "p_start"}

\* C21: every response of either endpoint, on every path, carries the fixed
\* hardening headers (method and header allow-lists, nosniff, DENY, referrer
\* policy), and they are on the response before any other step of the
\* pipeline has run: before the identity service, the store, the cipher or
\* the upstream is reached.
C21_HardeningHeaders ==
    \A r \in Slots :
        /\ res[r].sent => Hardened(res[r].headers)
        /\ (Started(r) \/ log[r] # <<>> \/ out[r].sent) => Hardened(res[r].headers)

\* The statuses answered so far are all seen with a response in hand: one
\* witness state for a relayed upstream status on the proxy.
C21_Witness ==
    /\ req[1].endpoint = "proxy" /\ pc[1] = "done"
    /\ res[1].sent /\ res[1].status = 404
    /\ out[1].sent
    /\ "Access-Control-Allow-Origin" \notin DOMAIN res[1].headers
    /\ Hardened(res[1].headers)

\* C22: an OPTIONS request to either endpoint always short-circuits the
\* pipeline: its only step answers 200 with no body, and while it is handled
\* the identity service, the record store, the cipher and the upstream are
\* never contacted, whatever the Authorization header and the configuration.
C22_PreflightShortCircuits ==
    \A r \in Slots :
        (pc[r] # "idle" /\ req[r].method = "OPTIONS") =>
            /\ pc[r] \in {"c_start", "p_start", "done"}
            /\ log[r] = <<>>
            /\ ~out[r].sent
            /\ table = loc[r].before
            /\ pc[r] = "done" =>
                  /\ res[r].sent /\ res[r].status = 200
                  /\ res[r].body = Undefined

\* A pre-flight with a bearer token was answered by the credential endpoint
\* of a deployment without identity-service settings.
C22_Witness ==
    /\ req[1].endpoint = "cred" /\ req[1].method = "OPTIONS"
    /\ HasBearer(req[1])
    /\ ~IsConfigured
    /\ pc[1] = "done" /\ res[1].status = 200

\* Step 1 of the resolver raised or failed for the request of slot r: the
\* identity service gave no user, the store could not be read, or decrypt
\* threw on the stored payload or on the process key.
Step1Raised(r) ==
    \/ Includes(log[r], "caught")
    \/ Includes(log[r], "identity") /\ loc[r].user = "" /\ pc[r] # "p_verify"
    \/ Includes(log[r], "store.unavailable")
    \/ Includes(log[r], "decrypt") /\ loc[r].via # "stored"

\* C23: every exception raised during step 1 of a proxy request (identity
\* service, record store, decryption, misconfigured key) stays inside the
\* resolver: the handler never fails, and the request goes on to step 2,
\* forwarded with the fallback credentials when they are configured and
\* answered 401 'Configuration required' when they are not.
C23_ResolverCatches ==
    \A r \in Slots :
        req[r].endpoint = "proxy" =>
            /\ pc[r] # "failed"
            /\ Step1Raised(r) =>
                  IF FallbackConfigured
                  THEN /\ out[r].sent
                       /\ loc[r].via = "fallback"
                       /\ out[r].url = TargetUrl(EnvCredentials, req[r])
                       /\ out[r].headers["X-N8N-API-KEY"] = Str(env.N8N_API_KEY)
                  ELSE /\ ~out[r].sent
                       /\ pc[r] = "done"
                       /\ res[r].status = 401
                       /\ res[r].body = ConfigurationRequired

\* The identity service raised for a user who has a stored record; the
\* request was forwarded with the fallback credentials and relayed.
C23_Witness ==
    /\ req[1].endpoint = "proxy" /\ pc[1] = "done"
    /\ Includes(log[1], "caught")
    /\ req[1].authorization = Bearer(TokenOf("u1"))
    /\ RowsOf("u1") # {}
    /\ out[1].sent /\ res[1].status = 200
    /\ out[1].headers["X-N8N-API-KEY"] = Str(env.N8N_API_KEY)

\* The methods of the credential endpoint that reach the vault.
VaultMethods == {"GET", "POST", "PUT", "DELETE"}

VaultEvents ==
    {"store.select", "store.update", "store.insert", "store.delete",
     "encrypt", "cipher"}

\* The request of slot r carries a bearer token that the identity service
\* issued to a user.
HasIssuedToken(r) ==
    \E u \in Users : req[r].authorization = Bearer(TokenOf(u))

\* Every store call and every call of encrypt of the request of slot r came
\* after the identity service verified the request's token.
VaultAfterVerification(r) ==
    \A i \in 1..Len(log[r]) :
        log[r][i] \in VaultEvents =>
            /\ HasIssuedToken(r)
            /\ pc[r] # "c_verify"
            /\ \E j \in 1..(i - 1) : log[r][j] = "identity"

\* The request of slot r was answered, and it had no Bearer header or a
\* token the identity service rejects.
AnsweredUnauthenticated(r) ==
    /\ req[r].endpoint = "cred" /\ req[r].method \in VaultMethods
    /\ pc[r] = "done"
    /\ ~HasIssuedToken(r)

VaultUntouched(r) ==
    /\ table = loc[r].before
    /\ \A i \in 1..Len(log[r]) : log[r][i] \notin VaultEvents

\* C24: on the credential endpoint, for every GET, POST, PUT or DELETE, the
\* store is read or written and encrypt is called only after the identity
\* service verified the bearer token of that request; a request with a
\* missing or non-Bearer Authorization header or a rejected token is
\* answered 401 with the store untouched.
C24_AuthenticationBeforeVault ==
    \A r \in Slots :
        req[r].endpoint = "cred" =>
            /\ VaultAfterVerification(r)
            /\ AnsweredUnauthenticated(r) =>
                  res[r].status = 401 /\ VaultUntouched(r)

\* C24 (amended): the same, with the 401 for deployments whose identity
\* service and key are configured; where they are not, such a request is
\* answered with the fixed 503, also with the store untouched.
C24_AuthenticationBeforeVaultWhenConfigured ==
    \A r \in Slots :
        req[r].endpoint = "cred" =>
            /\ VaultAfterVerification(r)
            /\ AnsweredUnauthenticated(r) =>
                  /\ res[r].status = IF IsConfigured THEN 401 ELSE 503
                  /\ ~IsConfigured => res[r].body = NotConfigured
                  /\ VaultUntouched(r)

\* A DELETE with a rejected token was answered 401 and the user's record
\* is still there.
C24_Witness ==
    /\ req[1].endpoint = "cred" /\ req[1].method = "DELETE"
    /\ req[1].authorization = Bearer(ExpiredToken)
    /\ Includes(log[1], "identity")
    /\ pc[1] = "done" /\ res[1].status = 401
    /\ table # {}

\* C25: on the credential endpoint every failure of token verification,
\* a network failure or unavailability of the identity service included,
\* comes back from verify as no user and not as an error: the request is
\* answered 401, and the handler never ends without a response or with an
\* unhandled error because the identity service failed.
C25_VerifyNeverRaises ==
    \A r \in Slots :
        req[r].endpoint = "cred" =>
            /\ pc[r] # "failed"
            /\ (Includes(log[r], "identity") /\ pc[r] # "c_verify"
                /\ ~HasIssuedToken(r)) =>
                  pc[r] = "done" /\ res[r].sent /\ res[r].status = 401

\* The places of an event in the log of slot r.
Places(r, event) == {i \in 1..Len(log[r]) : log[r][i] = event}

\* Every occurrence of `first` in the log of slot r precedes every
\* occurrence of `second`.
Precedes(r, first, second) ==
    \A i \in Places(r, first), j \in Places(r, second) : i < j

\* C26: within one proxy request the steps occur in the order authenticate,
\* resolve credentials, forward, relay, each at most once: at most one
\* identity verification and one upstream call, the upstream call only
\* after credentials have resolved, the relay only after the upstream call
\* settled, and no upstream call for a request that ends in the resolver's
\* terminal failure (401).
C26_StrictOrder ==
    \A r \in Slots :
        req[r].endpoint = "proxy" =>
            /\ Cardinality(Places(r, "identity")) <= 1
            /\ Cardinality(Places(r, "store.select")) <= 1
            /\ Cardinality(Places(r, "decrypt")) <= 1
            /\ Cardinality(Places(r, "fetch")) <= 1
            /\ Precedes(r, "identity", "store.select")
            /\ Precedes(r, "store.select", "decrypt")
            /\ \A e \in {"identity", "store.select", "store.unavailable",
                         "decrypt", "decipher", "caught"} :
                  Precedes(r, e, "fetch")
            /\ out[r].sent <=> Places(r, "fetch") # {}
            /\ out[r].sent => loc[r].via \in {"stored", "fallback"}
            /\ pc[r] \in {"p_verify", "p_lookup"} => ~out[r].sent /\ ~res[r].sent
            /\ pc[r] = "p_fetch" => out[r].sent /\ ~res[r].sent
            /\ (res[r].sent /\ req[r].method # "OPTIONS" /\ loc[r].via # "none")
                  => out[r].sent /\ res[r] = Relay(res[r].headers, out[r].reply)
            /\ (res[r].sent /\ req[r].method # "OPTIONS" /\ loc[r].via = "none")
                  => /\ ~out[r].sent
                     /\ res[r].status = 401 /\ res[r].body = ConfigurationRequired

\* A request went through all four steps: token verified, record read and
\* decrypted, upstream called, answer relayed.
C26_Witness ==
    /\ req[1].endpoint = "proxy" /\ pc[1] = "done"
    /\ log[1] = <<"identity", "store.select", "decrypt", "decipher", "fetch">>
    /\ loc[1].via = "stored"
    /\ res[1].sent /\ res[1].status = 201

\* The row holds the user, the server URL and the secret that slot r saved.
SavedIn(r, row) ==
    /\ row.user_id = loc[r].user
    /\ row.n8n_url = loc[r].n8nUrl
    /\ row.encrypted_api_key = loc[r].encryptedApiKey
    /\ Decrypt(row.encrypted_api_key) = Returned(SubmittedSecret(r))

\* C27: a successful save for a user with no record inserts a record with
\* that user_id, server_url and the encrypted secret; a successful save for
\* a user with a record replaces that record's server_url and encrypted
\* secret and sets its updated_at to the time of the save, leaving its id
\* and created_at unchanged.
C27_Upsert ==
    \A r \in Slots :
        SaveSucceeded(r) =>
            LET olds == {old \in loc[r].before : old.user_id = loc[r].user}
            IN  IF olds = {}
                THEN \E row \in table :
                        /\ SavedIn(r, row)
                        /\ table = loc[r].before \cup {row}
                ELSE \A old \in olds :
                        \E row \in table :
                           /\ SavedIn(r, row)
                           /\ row.id = old.id
                           /\ row.created_at = old.created_at
                           /\ row.updated_at = clock
                           /\ table = (loc[r].before \ {old}) \cup {row}

-----------------------------------------------------------------------------
(* SpecScope: one user's saves and deletes in flight together with         *)
(* another user's proxy requests.                                          *)

ScopeRequests ==
    {CredRequest("POST", Str(Localhost5173), Bearer(TokenOf("u1")),
                 SaveBody(Str(UrlB), Str(SecretB))),
     CredRequest("DELETE", Str(Localhost5173), Bearer(TokenOf("u1")), Undefined),
     ProxyRequest("GET", Str(Localhost5173), Bearer(TokenOf("u2")), Undefined,
                  ProxyUrl)}

InitScope ==
    /\ env = BaseEnv
    /\ table \in { {StoredRow(2, "u2", UrlB, SecretB, KeyA)},
                   {StoredRow(1, "u1", UrlA, SecretA, KeyA),
                    StoredRow(2, "u2", UrlB, SecretB, KeyA)} }
    /\ Idle

\* A request arrives while at most one other is in flight, and is served on
\* the first free of two slots.
ScopeArrive ==
    \E r \in {1, 2}, request \in ScopeRequests :
        /\ \A q \in 1..(r - 1) : pc[q] # "idle"
        /\ Arrive(r, request)

NextScope ==
    \/ ScopeArrive
    \/ \E r \in {1, 2} :
          \/ CredStart(r)
          \/ CredVerify(r)
          \/ CredExisting(r)
          \/ CredUpdate(r)
          \/ CredInsert(r)
          \/ CredDelete(r)
          \/ ProxyStart(r)
          \/ ProxyVerify(r)
          \/ ProxyLookup(r)
          \/ ProxyRelay(r)
          \/ Finish(r)

SpecScope == InitScope /\ [][NextScope]_vars

\* The user whose token the request of slot r carries.
Authenticated(r, u) == req[r].authorization = Bearer(TokenOf(u))

\* C28: under every interleaving of requests from different users, a save
\* or delete authenticated as user A creates, changes or removes only the
\* record whose user_id is A and leaves every other user's record unchanged,
\* and a proxy request authenticated as A is never forwarded with the server
\* URL or secret of another user's stored record: what it forwards with
\* stored credentials comes from a record of A.
C28_UserScoping ==
    [][ /\ \A u \in Users :
              RowsOf(u)' # RowsOf(u) =>
                 \E r \in Slots :
                    /\ pc[r] \in {"c_update", "c_insert", "c_delete"}
                    /\ pc'[r] = "done"
                    /\ Authenticated(r, u)
        /\ \A r \in Slots :
              (pc[r] = "p_lookup" /\ loc'[r].via = "stored") =>
                 \E u \in Users :
                    /\ Authenticated(r, u)
                    /\ \E row \in RowsOf(u) :
                          /\ out'[r].url =
                                TargetUrl(Credentials(row.n8n_url, <<>>), req[r])
                          /\ out'[r].headers["X-N8N-API-KEY"] =
                                Str(Decrypt(row.encrypted_api_key).value) ]_vars

\* While u2's proxy request was forwarded with u2's record, u1's save
\* changed u1's record and left u2's as it was.
C28_Witness ==
    /\ IsSave(1) /\ Authenticated(1, "u1") /\ SaveSucceeded(1)
    /\ req[2].endpoint = "proxy" /\ Authenticated(2, "u2")
    /\ out[2].sent /\ loc[2].via = "stored"
    /\ out[2].headers["X-N8N-API-KEY"] = Str(SecretB)
    /\ RowsOf("u2") = {StoredRow(2, "u2", UrlB, SecretB, KeyA)}
    /\ RowsOf("u1") # {StoredRow(1, "u1", UrlA, SecretA, KeyA)}

-----------------------------------------------------------------------------
(* The dashboard's client settings: the useSettings hook over the          *)
(* browser's localStorage.                                                 *)

STORAGE_KEY == "n8n-dashboard-settings"
SENSITIVE_STORAGE_KEY == "n8n-dashboard-credentials"

StorageKeys == {STORAGE_KEY, SENSITIVE_STORAGE_KEY}

ApiKeyField == <<"apiKey">>
UrlField == <<"n8nUrl">>

DefaultSettings ==
    Obj(<< Member(UrlField, Str(<<>>)),
           Member(ApiKeyField, Str(<<>>)),
           Member(<<"refreshInterval">>, Num(30)),
           Member(<<"autoRefresh">>, Bool(TRUE)),
           Member(<<"tableDensity">>, Str(<<"normal">>)),
           Member(<<"defaultPageSize">>, Num(15)) >>)

\* { ...a, ...b } for an object a: the members of a in their order, each
\* with b's value where b has the key, then the members only b has.  null,
\* a number and a boolean have no own members to spread.
Spread(a, b) ==
    LET more == IF b.t = "object" THEN b.v ELSE <<>>
        has(members, key) == \E i \in 1..Len(members) : members[i].k = key
        fresh(m) == ~has(a.v, m.k)
    IN  Obj([i \in 1..Len(a.v) |->
                IF has(more, a.v[i].k)
                THEN Member(a.v[i].k, Prop(Obj(more), a.v[i].k))
                ELSE a.v[i]]
            \o SelectSeq(more, fresh))

\* const { [key]: _, ...rest } = x
Omit(x, key) ==
    LET other(m) == m.k # key
    IN  Obj(SelectSeq(x.v, other))

\* localStorage.getItem answers null for a key that holds nothing.
GetItem(storage, key) == storage[key]
SetItem(storage, key, text) == [storage EXCEPT ![key] = Str(text)]
RemoveItem(storage, key) == [storage EXCEPT ![key] = Null]

\* loadSettings(); a text JSON.parse rejects lands in the catch.
LoadSettings(development, storage) ==
    LET stored == GetItem(storage, STORAGE_KEY)
        parsed == JsonParse(stored.v)
        baseSettings == IF Falsy(stored) THEN DefaultSettings
                        ELSE Spread(DefaultSettings, parsed.value)
        sensitiveStored == GetItem(storage, SENSITIVE_STORAGE_KEY)
        sensitive == JsonParse(sensitiveStored.v)
    IN  IF ~Falsy(stored) /\ ~parsed.ok THEN DefaultSettings
        ELSE IF development /\ ~Falsy(sensitiveStored)
        THEN IF sensitive.ok THEN Spread(baseSettings, sensitive.value)
             ELSE DefaultSettings
        ELSE baseSettings

SaveSettings_KeepsCredentials(development, storage, settings) ==
    LET apiKey == Prop(settings, ApiKeyField)
        nonSensitiveSettings == Omit(settings, ApiKeyField)
        written == SetItem(storage, STORAGE_KEY, JsonText(nonSensitiveSettings))
    IN  IF development /\ ~Falsy(apiKey)
        THEN SetItem(written, SENSITIVE_STORAGE_KEY,
                     JsonText(Obj(<<Member(ApiKeyField, apiKey)>>)))
        ELSE written

\* saveSettings(settings): the storage it leaves
SaveSettings(development, storage, settings) ==
    LET apiKey == Prop(settings, ApiKeyField)
        nonSensitiveSettings == Omit(settings, ApiKeyField)
        written == SetItem(storage, STORAGE_KEY, JsonText(nonSensitiveSettings))
    IN  IF development /\ ~Falsy(apiKey)
        THEN SetItem(written, SENSITIVE_STORAGE_KEY,
                     JsonText(Obj(<<Member(ApiKeyField, apiKey)>>)))
        ELSE IF ~development
        THEN RemoveItem(written, SENSITIVE_STORAGE_KEY)
        ELSE written

\* setIsConfigured(...) of the effect and of updateSettings
Configured(development, settings) ==
    IF development
    THEN ~Falsy(Prop(settings, UrlField)) /\ ~Falsy(Prop(settings, ApiKeyField))
    ELSE ~Falsy(Prop(settings, UrlField))

\* What the browser's storage can hold under the settings key before the
\* dashboard runs: nothing, an empty text, a text that is no JSON, JSON
\* that is no object, an entry of a build that kept the API key with the
\* other settings, and an entry of this build.
LegacySettings ==
    Obj(<<Member(UrlField, Str(UrlA)), Member(ApiKeyField, Str(SecretA))>>)

PriorSettings ==
    { Null, Str(<<>>), Str(<<"{">>), Str(JsonText(Null)),
      Str(JsonText(LegacySettings)),
      Str(JsonText(Omit(Spread(DefaultSettings,
                               Obj(<<Member(UrlField, Str(UrlA))>>)),
                        ApiKeyField))) }

PriorCredentials ==
    { Null, Str(<<"{">>), Str(JsonText(Obj(<<>>))),
      Str(JsonText(Obj(<<Member(ApiKeyField, Str(SecretA))>>))) }

\* The arguments of updateSettings.
NewSettings ==
    { Obj(<<>>),
      Obj(<<Member(ApiKeyField, Str(SecretB))>>),
      Obj(<<Member(ApiKeyField, Str(<<>>))>>),
      Obj(<<Member(UrlField, Str(UrlB)), Member(ApiKeyField, Str(SecretB))>>),
      Obj(<<Member(UrlField, Str(<<>>))>>),
      Obj(<<Member(<<"refreshInterval">>, Num(5)),
            Member(<<"autoRefresh">>, Bool(FALSE))>>),
      Obj(<<Member(<<"tableDensity">>, Str(<<"compact">>)),
            Member(<<"defaultPageSize">>, Num(50))>>) }

\* The hook mounted on a page: useState(loadSettings) and the effect.
Mounted(development, storage, prior, called, saved, last) ==
    LET loaded == LoadSettings(development, storage)
    IN  [kind |-> "settings", development |-> development,
         storage |-> storage, settings |-> loaded,
         isConfigured |-> Configured(development, loaded),
         prior |-> prior, called |-> called, saved |-> saved, last |-> last]

InitSettings ==
    /\ env = BaseEnv
    /\ table = {}
    /\ IdleSlots
    /\ \E development \in BOOLEAN, s \in PriorSettings, c \in PriorCredentials :
          LET storage == [k \in StorageKeys |->
                             IF k = STORAGE_KEY THEN s ELSE c]
          IN  pure = Mounted(development, storage, storage, FALSE, NotRun, "mount")

\* updateSettings(newSettings)
UpdateSettings ==
    /\ pure.kind = "settings"
    /\ \E newSettings \in NewSettings :
          LET updated == Spread(pure.settings, newSettings)
          IN  pure' = [pure EXCEPT
                  !.storage = SaveSettings(pure.development, pure.storage, updated),
                  !.settings = updated,
                  !.isConfigured = Configured(pure.development, updated),
                  !.called = TRUE,
                  !.saved = Ran(updated),
                  !.last = "update"]
    /\ UNCHANGED <<env, table, nextId, clock, pc, req, loc, res, out, log>>

\* resetSettings()
ResetSettings ==
    /\ pure.kind = "settings"
    /\ pure' = [pure EXCEPT
            !.storage = RemoveItem(RemoveItem(pure.storage, STORAGE_KEY),
                                   SENSITIVE_STORAGE_KEY),
            !.settings = DefaultSettings,
            !.isConfigured = FALSE,
            !.called = TRUE,
            !.saved = NotRun,
            !.last = "reset"]
    /\ UNCHANGED <<env, table, nextId, clock, pc, req, loc, res, out, log>>

\* The page is loaded again: the hook mounts on the storage left behind.
Reload ==
    /\ pure.kind = "settings"
    /\ pure' = Mounted(pure.development, pure.storage, pure.prior,
                       pure.called, pure.saved, "reload")
    /\ UNCHANGED <<env, table, nextId, clock, pc, req, loc, res, out, log>>

NextSettings == UpdateSettings \/ ResetSettings \/ Reload

SpecSettings == InitSettings /\ [][NextSettings]_vars

\* The members of an object as key-value pairs, whatever their order.
Members(x) == {<<x.v[i].k, x.v[i].x>> : i \in 1..Len(x.v)}

\* No text in storage names or holds an API key.
HoldsApiKey(item) ==
    /\ item # Null
    /\ \/ Includes(item.v, ApiKeyField[1])
       \/ Contains(item.v, SecretA)
       \/ Contains(item.v, SecretB)

\* C29: outside development mode, once updateSettings or resetSettings has
\* been called at least once, neither storage key holds an API key: the
\* credentials entry is absent and the settings entry is absent or has no
\* apiKey member, whatever the storage held before and whatever apiKey was
\* passed.
C29_NoStoredApiKey ==
    (pure.kind = "settings" /\ ~pure.development /\ pure.called) =>
        /\ GetItem(pure.storage, SENSITIVE_STORAGE_KEY) = Null
        /\ ~HoldsApiKey(GetItem(pure.storage, STORAGE_KEY))
        /\ pure.last = "update" =>
              /\ JsonParse(GetItem(pure.storage, STORAGE_KEY).v).ok
              /\ Members(JsonParse(GetItem(pure.storage, STORAGE_KEY).v).value)
                    = Members(Omit(pure.saved.value, ApiKeyField))

\* Storage held an API key under both keys; updateSettings was passed
\* another one, and storage now holds the settings without any key.
C29_Witness ==
    /\ pure.kind = "settings" /\ ~pure.development
    /\ pure.last = "update"
    /\ HoldsApiKey(GetItem(pure.prior, STORAGE_KEY))
    /\ HoldsApiKey(GetItem(pure.prior, SENSITIVE_STORAGE_KEY))
    /\ Prop(pure.saved.value, ApiKeyField) = Str(SecretB)
    /\ GetItem(pure.storage, STORAGE_KEY) # Null
    /\ GetItem(pure.storage, SENSITIVE_STORAGE_KEY) = Null
    /\ ~HoldsApiKey(GetItem(pure.storage, STORAGE_KEY))

\* C30: in development mode, loadSettings after saveSettings(s) returns s,
\* for every s (an empty apiKey included) and every prior storage: the
\* settings a reload finds are the settings last saved.
C30_RoundTrip ==
    (pure.kind = "settings" /\ pure.development
         /\ pure.saved.ran /\ pure.last = "reload") =>
        Members(pure.settings) = Members(pure.saved.value)

=============================================================================
